---------------------------- MODULE Spec2Model ----------------------------
(***************************************************************************)
(* A model of hfstol: the loader of an HFST optimized-lookup file          *)
(* (shared.py Header / Alphabet, transducer.py IndexTable /                *)
(* TransitionTable), the letter trie, the flag-diacritic stack, the        *)
(* backtracking search of transducer.py and the facade of main.py          *)
(* (from_file, feed, feed_in_bulk, concat_res).                            *)
(*                                                                         *)
(* Representation.                                                         *)
(*   - A Python str is a sequence of code points; a character is a str of  *)
(*     length 1.  bytes are sequences of 0..255.                           *)
(*   - A Python list is a sequence; Python index i is TLA+ index i+1.      *)
(*   - A dict is a function whose DOMAIN is its key set.                   *)
(*   - A u32 read from the file is kept as [tt, off], its top bit and its  *)
(*     low 31 bits: value = (IF tt THEN 2^31 ELSE 0) + off.  The bias      *)
(*     TRANSITION_TARGET_TABLE_START is 2^31, so "v >= bias" is v.tt and   *)
(*     "v - bias" is v.off when v.tt.                                      *)
(*   - An exception is a non-empty string in the field exc of the value a  *)
(*     routine returns; a routine that never returns yields "hang".        *)
(*   - A routine's local variable that is read several times is the        *)
(*     parameter of a helper operator, named after the place it continues. *)
(***************************************************************************)
EXTENDS Integers, Sequences, FiniteSets, TLC

VARIABLES
    status,       \* "none" | "ready" | "failed" | "hung": the HFSTOL instance of the run
    tables,       \* what from_file loaded: header, alphabet, letterTrie, indices, transitions
    engine,       \* the Transducer's mutable fields: inputString, outputString, stateStack, output_list, displayVector
    call,         \* the last facade call and how it ended
    threads,      \* feed calls in progress on concurrent threads
    fast          \* the lookup processes of the instance and the call of feed_in_bulk_fast in progress

vars == <<status, tables, engine, call, threads, fast>>

---------------------------------------------------------------------------
(* constants.py *)

NO_SYMBOL_NUMBER == 65535

MaxOff == 2147483647

NO_TABLE_INDEX == [tt |-> TRUE, off |-> MaxOff]

\* the u32 whose value is the small number n
Word(n) == [tt |-> FALSE, off |-> n]

\* the u32 TRANSITION_TARGET_TABLE_START + n
Biased(n) == [tt |-> TRUE, off |-> n]

\* v - TRANSITION_TARGET_TABLE_START, for a u32 v: negative when v is below the bias
MinusStart(v) == IF v.tt THEN v.off ELSE (v.off - MaxOff) - 1

\* Python's unbounded a + b for a, b >= 0, saturated at MaxOff: every table
\* is shorter than MaxOff, so a saturated index is out of range like the true one.
Plus(a, b) == IF a > MaxOff - b THEN MaxOff ELSE a + b

---------------------------------------------------------------------------
(* Python lists and dicts *)

InRange(list, i) == i < Len(list) /\ i >= 0 - Len(list)

\* list[i] for an index in range; a negative index counts from the end
At(list, i) == IF i >= 0 THEN list[i + 1] ELSE list[Len(list) + i + 1]

EmptyDict == <<>>

DictPut(d, k, v) == [x \in (DOMAIN d) \cup {k} |-> IF x = k THEN v ELSE d[x]]

DictDel(d, k) == [x \in (DOMAIN d) \ {k} |-> d[x]]

Min(a, b) == IF a < b THEN a ELSE b

---------------------------------------------------------------------------
(* struct / file primitives *)

\* file.read(n) at position pos of data: the bytes read (fewer at end of file)
ReadBytes(data, pos, n) == SubSeq(data, pos + 1, Min(pos + n, Len(data)))

\* struct.unpack_from("<H", buf, at)
UnpackH(buf, at) == buf[at + 1] + 256 * buf[at + 2]

\* struct.unpack_from("<I", buf, at)
UnpackI(buf, at) ==
    [tt  |-> buf[at + 4] >= 128,
     off |-> buf[at + 1] + 256 * buf[at + 2] + 65536 * buf[at + 3]
             + 16777216 * (buf[at + 4] % 128)]

IsZero(v) == ~v.tt /\ v.off = 0

Failed(name) == [exc |-> name]

---------------------------------------------------------------------------
(* shared.py: Header *)

HFST3_MAGIC == <<72, 70, 83, 84, 0>>   \* b'HFST\x00'

\* the fixed header's fifteen fields, unpacked from the 56 bytes of byte_buffer
HeaderFields(byte_buffer) ==
    [number_of_input_symbols             |-> UnpackH(byte_buffer, 0),
     number_of_symbols                   |-> UnpackH(byte_buffer, 2),
     size_of_transition_index_table      |-> UnpackI(byte_buffer, 4),
     size_of_transition_target_table     |-> UnpackI(byte_buffer, 8),
     number_of_states                    |-> UnpackI(byte_buffer, 12),
     number_of_transitions               |-> UnpackI(byte_buffer, 16),
     weighted                            |-> ~IsZero(UnpackI(byte_buffer, 20)),
     deterministic                       |-> ~IsZero(UnpackI(byte_buffer, 24)),
     input_deterministic                 |-> ~IsZero(UnpackI(byte_buffer, 28)),
     minimized                           |-> ~IsZero(UnpackI(byte_buffer, 32)),
     cyclic                              |-> ~IsZero(UnpackI(byte_buffer, 36)),
     has_epsilon_epsilon_transitions     |-> ~IsZero(UnpackI(byte_buffer, 40)),
     has_input_epsilon_transitions       |-> ~IsZero(UnpackI(byte_buffer, 44)),
     has_input_epsilon_cycles            |-> ~IsZero(UnpackI(byte_buffer, 48)),
     has_unweighted_input_epsilon_cycles |-> ~IsZero(UnpackI(byte_buffer, 52))]

\* lines 19-33: the header unpacked from byte_buffer, whose first byte is the
\* file's byte at offset start and after which the file stands at pos
HeaderFrom(byte_buffer, start, pos) ==
    IF Len(byte_buffer) < 56 THEN Failed("struct.error")
    ELSE [exc |-> "", pos |-> pos, start |-> start, h |-> HeaderFields(byte_buffer)]

\* _handle_hfst3_header(file, remaining), the file standing at pos, then line 16
Hfst3Skip(data, pos, remaining) ==
    IF Len(ReadBytes(data, pos, remaining)) < remaining THEN Failed("struct.error")
    ELSE HeaderFrom(ReadBytes(data, pos + remaining, 56), pos + remaining,
                    Min(pos + remaining + 56, Len(data)))

\* a preamble whose length is followed at once by its bytes
Hfst3LengthOfTwoBytes(data, lenbuf) ==
    IF Len(lenbuf) < 2 THEN Failed("struct.error")
    ELSE Hfst3Skip(data, 5 + 2, UnpackH(lenbuf, 0))

\* line 14: file.read(3) gave lenbuf; its first two bytes are the length
Hfst3Length(data, lenbuf) ==
    IF Len(lenbuf) < 2 THEN Failed("struct.error")
    ELSE Hfst3Skip(data, 5 + Len(lenbuf), UnpackH(lenbuf, 0))

\* lines 12-18: file.read(5) gave first
HeaderAfterMagic(data, first) ==
    IF Len(first) < 5 THEN Failed("struct.error")
    ELSE IF first = HFST3_MAGIC THEN Hfst3Length(data, ReadBytes(data, 5, 3))
    ELSE HeaderFrom(first \o ReadBytes(data, 5, 56 - 5), 0, Min(56, Len(data)))

\* Header.__init__ on a file holding data, read from its beginning
Header(data) == HeaderAfterMagic(data, ReadBytes(data, 0, 5))

---------------------------------------------------------------------------
(* shared.py: Alphabet *)

Continuation(b) == b >= 128 /\ b <= 191

\* the length of the UTF-8 sequence that starts bs, 0 when bs starts with no
\* valid sequence (bytes.decode(encoding='utf-8'), strict)
Utf8Width(bs) ==
    LET b == bs[1]
        n == Len(bs)
    IN  IF b < 128 THEN 1
        ELSE IF b >= 194 /\ b <= 223
        THEN IF n >= 2 /\ Continuation(bs[2]) THEN 2 ELSE 0
        ELSE IF b >= 224 /\ b <= 239
        THEN IF /\ n >= 3
                /\ Continuation(bs[2])
                /\ (b = 224 => bs[2] >= 160)
                /\ (b = 237 => bs[2] <= 159)
                /\ Continuation(bs[3])
             THEN 3 ELSE 0
        ELSE IF b >= 240 /\ b <= 244
        THEN IF /\ n >= 4
                /\ Continuation(bs[2])
                /\ (b = 240 => bs[2] >= 144)
                /\ (b = 244 => bs[2] <= 143)
                /\ Continuation(bs[3])
                /\ Continuation(bs[4])
             THEN 4 ELSE 0
        ELSE 0

\* the code point of the valid sequence of width w that starts bs
Utf8CodePoint(bs, w) ==
    CASE w = 1 -> bs[1]
      [] w = 2 -> (bs[1] - 192) * 64 + (bs[2] - 128)
      [] w = 3 -> (bs[1] - 224) * 4096 + (bs[2] - 128) * 64 + (bs[3] - 128)
      [] w = 4 -> (bs[1] - 240) * 262144 + (bs[2] - 128) * 4096
                  + (bs[3] - 128) * 64 + (bs[4] - 128)

RECURSIVE Utf8Decode(_)

Utf8Cons(cp, rest) == [ok |-> rest.ok, str |-> <<cp>> \o rest.str]

Utf8DecodeWidth(bs, w) ==
    IF w = 0 THEN [ok |-> FALSE, str |-> <<>>]
    ELSE Utf8Cons(Utf8CodePoint(bs, w), Utf8Decode(SubSeq(bs, w + 1, Len(bs))))

\* symbol.decode(encoding='utf-8'): [ok, str]
Utf8Decode(bs) ==
    IF bs = <<>> THEN [ok |-> TRUE, str |-> <<>>] ELSE Utf8DecodeWidth(bs, Utf8Width(bs))

\* the place of the first sep in str, 0 when there is none
FirstOf(str, sep) ==
    IF \E i \in 1..Len(str) : str[i] = sep
    THEN CHOOSE j \in 1..Len(str) : str[j] = sep /\ \A k \in 1..(j - 1) : str[k] # sep
    ELSE 0

RECURSIVE Split(_, _)

SplitAt(str, sep, i) ==
    IF i = 0 THEN <<str>>
    ELSE <<SubSeq(str, 1, i - 1)>> \o Split(SubSeq(str, i + 1, Len(str)), sep)

\* str.split(sep) for a one-character sep: the list of the parts
Split(str, sep) == SplitAt(str, sep, FirstOf(str, sep))

FlagLetters == {80, 78, 82, 68, 67, 85}   \* "PNRDCU"

\* the test of lines 57-58
LooksLikeFlag(symbol_str) ==
    /\ Len(symbol_str) > 4
    /\ symbol_str[1] = 64                       \* '@'
    /\ symbol_str[Len(symbol_str)] = 64
    /\ symbol_str[3] = 46                       \* '.'
    /\ symbol_str[2] \in FlagLetters

FlagDiacriticOperation(op, feat, val) == [operation |-> op, feature |-> feat, value |-> val]

\* lines 60-72 with the symbol's own string appended at line 71
FlagEntryKeepsString(symbol_str, parts) ==
    IF Len(parts) = 2
    THEN [key |-> symbol_str, flag |-> TRUE,
          op |-> FlagDiacriticOperation(parts[1], parts[2], <<>>)]
    ELSE IF Len(parts) = 3
    THEN [key |-> symbol_str, flag |-> TRUE,
          op |-> FlagDiacriticOperation(parts[1], parts[2], parts[3])]
    ELSE [key |-> symbol_str, flag |-> FALSE]

\* lines 60-72: parts is symbol_str[1:-1].split('.')
FlagEntry(symbol_str, parts) ==
    IF Len(parts) = 2
    THEN [key |-> <<>>, flag |-> TRUE,
          op |-> FlagDiacriticOperation(parts[1], parts[2], <<>>)]
    ELSE IF Len(parts) = 3
    THEN [key |-> <<>>, flag |-> TRUE,
          op |-> FlagDiacriticOperation(parts[1], parts[2], parts[3])]
    ELSE [key |-> symbol_str, flag |-> FALSE]

\* what one decoded symbol adds: its key, and its flag operation if it is one
SymbolEntry(symbol_str) ==
    IF LooksLikeFlag(symbol_str)
    THEN FlagEntry(symbol_str, Split(SubSeq(symbol_str, 2, Len(symbol_str) - 1), 46))
    ELSE [key |-> symbol_str, flag |-> FALSE]

\* the offset just after the first NUL byte of data after pos, 0 when there is none
NextNul(data, pos) ==
    IF \E i \in (pos + 1)..Len(data) : data[i] = 0
    THEN CHOOSE i \in (pos + 1)..Len(data) :
             data[i] = 0 /\ \A k \in (pos + 1)..(i - 1) : data[k] # 0
    ELSE 0

RECURSIVE AlphabetLoop(_, _, _, _, _)

\* lines 57-74: the symbol x decoded to entry e
AlphabetAdd(data, nul, x, number_of_symbols, acc, e) ==
    AlphabetLoop(data, nul, x + 1, number_of_symbols,
        [key_table |-> Append(acc.key_table, e.key),
         flagDiacriticOperations |->
             IF e.flag THEN DictPut(acc.flagDiacriticOperations, x, e.op)
             ELSE acc.flagDiacriticOperations])

\* line 56
AlphabetDecode(data, nul, x, number_of_symbols, acc, dec) ==
    IF ~dec.ok THEN Failed("UnicodeDecodeError")
    ELSE AlphabetAdd(data, nul, x, number_of_symbols, acc, SymbolEntry(dec.str))

\* lines 52-75: the while loop that reads symbol x. At the end of the file
\* file.read(1) returns b'', which is not b'\0': the loop never ends.
AlphabetSymbol(data, pos, x, number_of_symbols, acc, nul) ==
    IF nul = 0 THEN Failed("hang")
    ELSE AlphabetDecode(data, nul, x, number_of_symbols, acc,
                        Utf8Decode(SubSeq(data, pos + 1, nul - 1)))

\* the for loop of Alphabet.__init__ from symbol x on, the file standing at pos
AlphabetLoop(data, pos, x, number_of_symbols, acc) ==
    IF x >= number_of_symbols THEN [exc |-> "", pos |-> pos] @@ acc
    ELSE AlphabetSymbol(data, pos, x, number_of_symbols, acc, NextNul(data, pos))

\* lines 76-78
AlphabetEnd(r) ==
    IF r.exc # "" THEN r
    ELSE IF r.key_table = <<>> THEN Failed("IndexError")
    ELSE [r EXCEPT !.key_table[1] = <<>>]

\* Alphabet.__init__(file, number_of_symbols), the file standing at pos
Alphabet(data, pos, number_of_symbols) ==
    AlphabetEnd(AlphabetLoop(data, pos, 0, number_of_symbols,
                    [key_table |-> <<>>, flagDiacriticOperations |-> EmptyDict]))

---------------------------------------------------------------------------
(* shared.py: LetterTrie, Indexlist *)

Node == [symbols |-> EmptyDict, children |-> EmptyDict]

\* the child of node under character c, a new node when there is none
ChildOf(node, c) == IF c \in DOMAIN node.children THEN node.children[c] ELSE Node

RECURSIVE add(_, _, _)
\* LetterTrie.Node.add: the node after string resolves to symbolNumber
add(node, string, symbolNumber) ==
    IF Len(string) > 1
    THEN [node EXCEPT !.children =
             DictPut(node.children, <<string[1]>>,
                     add(ChildOf(node, <<string[1]>>), Tail(string), symbolNumber))]
    ELSE IF Len(string) = 1
    THEN [node EXCEPT !.symbols = DictPut(node.symbols, <<string[1]>>, symbolNumber)]
    ELSE [node EXCEPT !.symbols = DictPut(node.symbols, string, symbolNumber)]

\* Indexlist(items)
Indexlist(items) == [s |-> items, pos |-> 0]

\* list(string): the characters of a str, each a str of length 1
Chars(string) == [i \in 1..Len(string) |-> <<string[i]>>]

Found(sym, pos) == [sym |-> sym, pos |-> pos]

\* lines 118-123 without the test of self.symbols: no shorter symbol is tried
FindBackWithoutFallback(node, current, temp) ==
    IF temp.sym = NO_SYMBOL_NUMBER
    THEN Found(NO_SYMBOL_NUMBER, temp.pos - 1)
    ELSE temp

\* lines 118-123: the child's find returned temp
FindBack(node, current, temp) ==
    IF temp.sym = NO_SYMBOL_NUMBER
    THEN IF current \notin DOMAIN node.symbols
         THEN Found(NO_SYMBOL_NUMBER, temp.pos - 1)
         ELSE Found(node.symbols[current], temp.pos)
    ELSE temp

RECURSIVE find(_, _)

\* lines 110-123 without line 114: a character with no child and no symbol is
\* not given back
FindAtKeepsCharacter(node, indexstring, current, pos) ==
    IF current \notin DOMAIN node.children
    THEN IF current \notin DOMAIN node.symbols
         THEN Found(NO_SYMBOL_NUMBER, pos)
         ELSE Found(node.symbols[current], pos)
    ELSE FindBack(node, current,
                  find(node.children[current], [indexstring EXCEPT !.pos = pos]))

\* lines 110-123: current is the character at the cursor, which has moved on to pos
FindAt(node, indexstring, current, pos) ==
    IF current \notin DOMAIN node.children
    THEN IF current \notin DOMAIN node.symbols
         THEN Found(NO_SYMBOL_NUMBER, pos - 1)
         ELSE Found(node.symbols[current], pos)
    ELSE FindBack(node, current,
                  find(node.children[current], [indexstring EXCEPT !.pos = pos]))

\* LetterTrie.Node.find: [sym, pos], the symbol number returned and the
\* cursor position the call leaves in indexstring
find(node, indexstring) ==
    IF indexstring.pos >= Len(indexstring.s)
    THEN Found(NO_SYMBOL_NUMBER, indexstring.pos)
    ELSE FindAt(node, indexstring, At(indexstring.s, indexstring.pos),
                indexstring.pos + 1)

\* LetterTrie.findKey
findKey(letterTrie, indexstring) == find(letterTrie, indexstring)

RECURSIVE addStrings(_, _, _, _)
\* the loop of Transducer.__init__ over range(number_of_symbols), from x on
addStrings(root, key_table, x, number_of_symbols) ==
    IF x >= number_of_symbols THEN root
    ELSE addStrings(add(root, key_table[x + 1], x), key_table, x + 1, number_of_symbols)

---------------------------------------------------------------------------
(* transducer.py: the tables *)

TransitionIndex(input_symbol, transition) ==
    [inputSymbol |-> input_symbol, target |-> transition]

Transition(input, output, target) ==
    [inputSymbol |-> input, outputSymbol |-> output, target |-> target]

\* whether count records of width bytes each lie in the avail bytes left
Fits(count, width, avail) == ~count.tt /\ count.off <= avail \div width

\* lines 24-28: the records unpacked from byte_buffer
IndexRecords(byte_buffer, pos, count) ==
    [exc |-> "", pos |-> pos + Len(byte_buffer),
     indices |-> [x \in 1..count |->
         TransitionIndex(UnpackH(byte_buffer, (x - 1) * 6),
                         UnpackI(byte_buffer, (x - 1) * 6 + 2))]]

\* IndexTable.__init__: number_of_indices records of "<HI"
IndexTable(data, pos, number_of_indices) ==
    IF ~Fits(number_of_indices, 6, Len(data) - pos) THEN Failed("struct.error")
    ELSE IndexRecords(ReadBytes(data, pos, number_of_indices.off * 6), pos,
                      number_of_indices.off)

\* lines 47-52: the records unpacked from byte_buffer
TransitionRecords(byte_buffer, pos, count) ==
    [exc |-> "", pos |-> pos + Len(byte_buffer),
     transitions |-> [x \in 1..count |->
         Transition(UnpackH(byte_buffer, (x - 1) * 8),
                    UnpackH(byte_buffer, (x - 1) * 8 + 2),
                    UnpackI(byte_buffer, (x - 1) * 8 + 4))]]

\* TransitionTable.__init__: number_of_transitions records of "<HHI"
TransitionTable(data, pos, number_of_transitions) ==
    IF ~Fits(number_of_transitions, 8, Len(data) - pos) THEN Failed("struct.error")
    ELSE TransitionRecords(ReadBytes(data, pos, number_of_transitions.off * 8), pos,
                           number_of_transitions.off)

\* TransitionIndex.isFinal
IndexIsFinal(rec) == rec.inputSymbol = NO_SYMBOL_NUMBER /\ rec.target # NO_TABLE_INDEX

\* Transition.isFinal
TransitionIsFinal(rec) ==
    /\ rec.inputSymbol = NO_SYMBOL_NUMBER
    /\ rec.outputSymbol = NO_SYMBOL_NUMBER
    /\ rec.target = Word(1)

\* the mutable fields of a Transducer as __init__ leaves them
NewEngine ==
    [stateStack    |-> <<EmptyDict>>,
     displayVector |-> <<>>,
     outputString  |-> Indexlist(<<>>),
     inputString   |-> Indexlist(<<>>),
     output_list   |-> <<>>]

\* lines 78-82: the instance, tt being the transition table read
TransducerBuilt(header, alphabet, it, tt) ==
    IF tt.exc # "" THEN Failed(tt.exc)
    ELSE [exc |-> "",
          t |-> [header |-> header,
                 key_table |-> alphabet.key_table,
                 flagDiacriticOperations |-> alphabet.flagDiacriticOperations,
                 letterTrie |-> addStrings(Node, alphabet.key_table, 0,
                                           header.number_of_symbols),
                 indices |-> it.indices,
                 transitions |-> tt.transitions]]

\* lines 76-77: it is the index table read
TransducerIndexed(data, header, alphabet, it) ==
    IF it.exc # "" THEN Failed(it.exc)
    ELSE TransducerBuilt(header, alphabet, it,
             TransitionTable(data, it.pos, header.size_of_transition_target_table))

\* Transducer.__init__(file, header, alphabet), the file standing at pos
Transducer(data, pos, header, alphabet) ==
    TransducerIndexed(data, header, alphabet,
        IndexTable(data, pos, header.size_of_transition_index_table))

\* the tables of a run that holds no instance
NoTables == [header |-> <<>>, key_table |-> <<>>, flagDiacriticOperations |-> EmptyDict,
             letterTrie |-> Node, indices |-> <<>>, transitions |-> <<>>]

---------------------------------------------------------------------------
(* main.py: HFSTOL.from_file *)

\* lines 141-146: alphabet was read; the weighted flag is looked at only now
FromAlphabet(data, hd, alphabet) ==
    IF alphabet.exc # "" THEN Failed(alphabet.exc)
    ELSE IF hd.h.weighted THEN Failed("NotImplementedError")
    ELSE Transducer(data, alphabet.pos, hd.h, alphabet)

\* line 140: hd is the header read
FromHeader(data, hd) ==
    IF hd.exc # "" THEN Failed(hd.exc)
    ELSE FromAlphabet(data, hd, Alphabet(data, hd.pos, hd.h.number_of_symbols))

\* from_file on a file holding data: [exc, t]; exc = "" when an instance is returned
from_file(data) == FromHeader(data, Header(data))

---------------------------------------------------------------------------
(* shared.py: FlagDiacriticStateStack *)

\* a duplicate that pushes a new empty frame
duplicateEmpty(stack) == Append(stack, EmptyDict)

\* FlagDiacriticStateStack.duplicate
duplicate(stack) == Append(stack, stack[Len(stack)])

\* FlagDiacriticStateStack.pop
pop(stack) == SubSeq(stack, 1, Len(stack) - 1)

\* the stack with its top frame's feat set to entry
SetTop(stack, feat, entry) ==
    [stack EXCEPT ![Len(stack)] = DictPut(stack[Len(stack)], feat, entry)]

\* the stack with feat deleted from its top frame
ClearTop(stack, feat) ==
    [stack EXCEPT ![Len(stack)] = DictDel(stack[Len(stack)], feat)]

Pushed(stack) == [ok |-> TRUE, stack |-> stack]

Refused(stack) == [ok |-> FALSE, stack |-> stack]

\* push whose unification refuses every feature that is negatively set
PushOpUnifyRefusesNegative(stack, op, feat, val, top, has) ==
    IF op = <<80>>
    THEN Pushed(SetTop(duplicate(stack), feat, <<val, TRUE>>))
    ELSE IF op = <<78>>
    THEN Pushed(SetTop(duplicate(stack), feat, <<val, FALSE>>))
    ELSE IF op = <<82>>
    THEN IF val = <<>>
         THEN IF ~has THEN Refused(stack) ELSE Pushed(duplicate(stack))
         ELSE IF has /\ top[feat] = <<val, TRUE>>
              THEN Pushed(duplicate(stack)) ELSE Refused(stack)
    ELSE IF op = <<68>>
    THEN IF val = <<>>
         THEN IF ~has THEN Pushed(duplicate(stack)) ELSE Refused(stack)
         ELSE IF has /\ top[feat] = <<val, TRUE>>
              THEN Refused(stack) ELSE Pushed(duplicate(stack))
    ELSE IF op = <<67>>
    THEN Pushed(IF has THEN ClearTop(duplicate(stack), feat) ELSE duplicate(stack))
    ELSE IF op = <<85>>
    THEN IF ~has \/ top[feat] = <<val, TRUE>>
         THEN Pushed(SetTop(duplicate(stack), feat, <<val, TRUE>>))
         ELSE Refused(stack)
    ELSE Refused(stack)

\* push for the operation op on feat and val, top being the stack's last
\* frame and has whether it holds feat
PushOp(stack, op, feat, val, top, has) ==
    IF op = <<80>>                                            \* 'P'
    THEN Pushed(SetTop(duplicate(stack), feat, <<val, TRUE>>))
    ELSE IF op = <<78>>                                       \* 'N'
    THEN Pushed(SetTop(duplicate(stack), feat, <<val, FALSE>>))
    ELSE IF op = <<82>>                                       \* 'R'
    THEN IF val = <<>>
         THEN IF ~has THEN Refused(stack) ELSE Pushed(duplicate(stack))
         ELSE IF has /\ top[feat] = <<val, TRUE>>
              THEN Pushed(duplicate(stack)) ELSE Refused(stack)
    ELSE IF op = <<68>>                                       \* 'D'
    THEN IF val = <<>>
         THEN IF ~has THEN Pushed(duplicate(stack)) ELSE Refused(stack)
         ELSE IF has /\ top[feat] = <<val, TRUE>>
              THEN Refused(stack) ELSE Pushed(duplicate(stack))
    ELSE IF op = <<67>>                                       \* 'C'
    THEN Pushed(IF has THEN ClearTop(duplicate(stack), feat) ELSE duplicate(stack))
    ELSE IF op = <<85>>                                       \* 'U'
    THEN IF \/ ~has
            \/ top[feat] = <<val, TRUE>>
            \/ (top[feat][2] = FALSE /\ top[feat][1] # val)
         THEN Pushed(SetTop(duplicate(stack), feat, <<val, TRUE>>))
         ELSE Refused(stack)
    ELSE Refused(stack)                                       \* falls off the end: None

\* a push that tests the oldest frame in the place of the top one
pushTestsOldestFrame(stack, flag_diacritic) ==
    PushOp(stack, flag_diacritic.operation, flag_diacritic.feature,
           flag_diacritic.value, stack[1],
           flag_diacritic.feature \in DOMAIN stack[1])

\* FlagDiacriticStateStack.push: [ok, stack]
push(stack, flag_diacritic) ==
    PushOp(stack, flag_diacritic.operation, flag_diacritic.feature,
           flag_diacritic.value, stack[Len(stack)],
           flag_diacritic.feature \in DOMAIN stack[Len(stack)])

---------------------------------------------------------------------------
(* transducer.py: the search.  m is the Transducer's mutable fields plus    *)
(* exc, the exception in flight ("" for none); tb holds the loaded tables.  *)

Raise(m, name) == [m EXCEPT !.exc = name]

\* Indexlist.put(val) on the output string
OutPut(m, val) ==
    IF m.outputString.pos < Len(m.outputString.s)
    THEN [m EXCEPT !.outputString.s[m.outputString.pos + 1] = val]
    ELSE [m EXCEPT !.outputString.s = Append(@, val)]

OutMove(m, d) == [m EXCEPT !.outputString.pos = @ + d]

InMove(m, d) == [m EXCEPT !.inputString.pos = @ + d]

\* whether Indexlist.get(adjustment) on the input string is in range
InGetOk(m, adjustment) == InRange(m.inputString.s, m.inputString.pos + adjustment)

\* Indexlist.get(adjustment) on the input string
InGet(m, adjustment) == At(m.inputString.s, m.inputString.pos + adjustment)

Translated(symbol_list) == [exc |-> "", symbol_list |-> symbol_list]

\* lines 158-160: key is appended to what the rest of the loop gives
TranslateKey(key, rest) ==
    IF rest.exc # "" THEN rest
    ELSE IF key # <<>> THEN Translated(<<key>> \o rest.symbol_list)
    ELSE rest

RECURSIVE Translate(_, _)
\* the loop of noteAnalysis over outputString.s: the keys of the symbols before the
\* first NO_SYMBOL_NUMBER, empty keys left out; [exc, symbol_list]
Translate(key_table, s) ==
    IF s = <<>> \/ s[1] = NO_SYMBOL_NUMBER THEN Translated(<<>>)
    ELSE IF ~InRange(key_table, s[1]) THEN [exc |-> "IndexError", symbol_list |-> <<>>]
    ELSE TranslateKey(At(key_table, s[1]), Translate(key_table, Tail(s)))

RECURSIVE Concat(_)
\* the str built by output += key over symbol_list
Concat(symbol_list) ==
    IF symbol_list = <<>> THEN <<>> ELSE symbol_list[1] \o Concat(Tail(symbol_list))

\* lines 162-164: tr is what the loop built.  noted keeps, for each analysis
\* appended, the buffers and the table position it was appended at
Noted(m, tr) ==
    IF tr.exc # "" THEN Raise(m, tr.exc)
    ELSE [m EXCEPT !.output_list = Append(@, tr.symbol_list),
                   !.displayVector = Append(@, <<Concat(tr.symbol_list), 0>>),
                   !.noted = Append(@, [inputString |-> m.inputString,
                                        outputString |-> m.outputString,
                                        index |-> m.index,
                                        symbol_list |-> tr.symbol_list])]

\* Transducer.noteAnalysis
noteAnalysis(m, tb) == Noted(m, Translate(tb.key_table, m.outputString.s))

RECURSIVE getAnalyses(_, _, _)
RECURSIVE tryEpsilonTransitions(_, _, _)
RECURSIVE findTransitions(_, _, _)

\* the input cursor, the output position and the depth of the flag stack
Place(m) == [input |-> m.inputString.pos, output |-> m.outputString.pos,
             depth |-> Len(m.stateStack)]

\* the call of fn entered with the fields m came back with the fields r:
\* returns keeps, for each call that returned, the places at entry and exit
CameBack(fn, m, r) ==
    IF r.exc # "" THEN r
    ELSE [r EXCEPT !.returns = Append(@, [fn |-> fn, entry |-> Place(m),
                                          exit |-> Place(r)])]

\* line 107: stateStack.pop(), recorded with the depth it leaves
Popped(m) ==
    [m EXCEPT !.stateStack = pop(@),
              !.returns = Append(@, [fn |-> "pop", entry |-> Place(m),
                                     exit |-> [Place(m) EXCEPT !.depth = @ - 1]])]

\* outputString.pos -= 1 after the recursive call returned m
StepBack(m) == IF m.exc # "" THEN m ELSE OutMove(m, -1)

\* the statements around each recursive call: put the output symbol, move
\* the output position, search from the target, move the position back
Step(m, tb, rec) ==
    StepBack(CameBack("getAnalyses", OutMove(OutPut(m, rec.outputSymbol), 1),
                      getAnalyses(OutMove(OutPut(m, rec.outputSymbol), 1), tb,
                                  rec.target)))

\* lines 95, 89: index += 1 and the next round of the loop
EpsilonNext(m, tb, index) ==
    IF m.exc # "" THEN m ELSE tryEpsilonTransitions(m, tb, Plus(index, 1))

\* lines 105-107: index += 1, stateStack.pop(), continue
FlagNext(m, tb, index) ==
    IF m.exc # "" THEN m
    ELSE tryEpsilonTransitions(Popped(m), tb, Plus(index, 1))

\* lines 97-107: p is what stateStack.push returned
FlagAt(m, tb, index, rec, p) ==
    IF ~p.ok THEN tryEpsilonTransitions(m, tb, Plus(index, 1))
    ELSE FlagNext(Step([m EXCEPT !.stateStack = p.stack], tb, rec), tb, index)

\* lines 90-109: rec is self.transitions[index]
EpsilonAt(m, tb, index, rec) ==
    IF rec.inputSymbol = 0 THEN EpsilonNext(Step(m, tb, rec), tb, index)
    ELSE IF rec.inputSymbol \in DOMAIN tb.flagDiacriticOperations
    THEN FlagAt(m, tb, index, rec,
                push(m.stateStack, tb.flagDiacriticOperations[rec.inputSymbol]))
    ELSE m

\* Transducer.tryEpsilonTransitions
tryEpsilonTransitions(m, tb, index) ==
    IF ~InRange(tb.transitions, index) THEN Raise(m, "IndexError")
    ELSE EpsilonAt(m, tb, index, At(tb.transitions, index))

\* Transducer.tryEpsilonIndices
tryEpsilonIndices(m, tb, index) ==
    IF ~InRange(tb.indices, index) THEN Raise(m, "IndexError")
    ELSE IF At(tb.indices, index).inputSymbol = 0
    THEN CameBack("tryEpsilonTransitions", m,
                  tryEpsilonTransitions(m, tb, MinusStart(At(tb.indices, index).target)))
    ELSE m

\* line 124: index += 1 and the next round of the loop
TransitionNext(m, tb, index) ==
    IF m.exc # "" THEN m ELSE findTransitions(m, tb, Plus(index, 1))

\* lines 116-124: rec is self.transitions[index]
TransitionAt(m, tb, index, rec) ==
    IF rec.inputSymbol # NO_SYMBOL_NUMBER
    THEN IF ~InGetOk(m, -1) THEN Raise(m, "IndexError")
         ELSE IF rec.inputSymbol = InGet(m, -1)
         THEN TransitionNext(Step(m, tb, rec), tb, index)
         ELSE m
    ELSE m

\* Transducer.findTransitions
findTransitions(m, tb, index) ==
    IF ~InRange(tb.transitions, index) THEN Raise(m, "IndexError")
    ELSE TransitionAt(m, tb, index, At(tb.transitions, index))

\* lines 112-113: at is index + self.inputString.get(-1)
IndexAt(m, tb, at) ==
    IF ~InRange(tb.indices, at) THEN Raise(m, "IndexError")
    ELSE IF At(tb.indices, at).inputSymbol = InGet(m, -1)
    THEN CameBack("findTransitions", m,
                  findTransitions(m, tb, MinusStart(At(tb.indices, at).target)))
    ELSE m

\* Transducer.findIndex
findIndex(m, tb, index) ==
    IF ~InGetOk(m, -1) THEN Raise(m, "IndexError")
    ELSE IndexAt(m, tb, Plus(index, InGet(m, -1)))

\* TransitionTable.isFinal(pos) for pos below the bias: whether it is in range
\* is checked by the caller
TableIsFinal(tb, pos) == TransitionIsFinal(At(tb.transitions, pos))

\* lines 133, 142: put the NO_SYMBOL_NUMBER marker, after noteAnalysis if any
AtEndPut(m) == IF m.exc # "" THEN m ELSE OutPut(m, NO_SYMBOL_NUMBER)

\* the end-of-input branch of getAnalyses: note an analysis if the record is
\* final, then put the NO_SYMBOL_NUMBER marker
AtEnd(m, tb, inRange, final) ==
    IF ~inRange THEN Raise(m, "IndexError")
    ELSE AtEndPut(IF final THEN noteAnalysis(m, tb) ELSE m)

\* a return from getAnalyses that leaves the input cursor where it is
BacktrackKeepsCursor(m) ==
    IF m.exc # "" THEN m ELSE OutPut(m, NO_SYMBOL_NUMBER)

\* lines 146-147, after findTransitions or findIndex returned m
Backtrack(m) ==
    IF m.exc # "" THEN m ELSE OutPut(InMove(m, -1), NO_SYMBOL_NUMBER)

\* lines 130-136: the epsilon moves of transition-table state idx returned m
AfterEpsilonTransitions(m, tb, idx) ==
    IF m.exc # "" THEN m
    ELSE IF ~InGetOk(m, 0) THEN Raise(m, "IndexError")
    ELSE IF InGet(m, 0) = NO_SYMBOL_NUMBER
    THEN AtEnd([m EXCEPT !.index = Biased(idx)], tb, InRange(tb.transitions, idx),
               InRange(tb.transitions, idx) /\ TableIsFinal(tb, idx))
    ELSE Backtrack(CameBack("findTransitions", InMove(m, 1),
                            findTransitions(InMove(m, 1), tb, Plus(idx, 1))))

\* lines 139-145: the epsilon moves of index-table state idx returned m
AfterEpsilonIndices(m, tb, idx) ==
    IF m.exc # "" THEN m
    ELSE IF ~InGetOk(m, 0) THEN Raise(m, "IndexError")
    ELSE IF InGet(m, 0) = NO_SYMBOL_NUMBER
    THEN AtEnd([m EXCEPT !.index = Word(idx)], tb, InRange(tb.indices, idx),
               InRange(tb.indices, idx) /\ IndexIsFinal(At(tb.indices, idx)))
    ELSE Backtrack(CameBack("findIndex", InMove(m, 1),
                            findIndex(InMove(m, 1), tb, Plus(idx, 1))))

\* Transducer.getAnalyses; index is a u32, or the 0 analyze starts from
getAnalyses(m, tb, index) ==
    IF index.tt
    THEN AfterEpsilonTransitions(
             CameBack("tryEpsilonTransitions", m,
                      tryEpsilonTransitions(m, tb, Plus(index.off, 1))),
             tb, index.off)
    ELSE AfterEpsilonIndices(
             CameBack("tryEpsilonIndices", m,
                      tryEpsilonIndices(m, tb, Plus(index.off, 1))),
             tb, index.off)

---------------------------------------------------------------------------
(* transducer.py: Transducer.analyze *)

\* self.inputString.last != NO_SYMBOL_NUMBER (transducer.py:172): last is a
\* method and is not called; a bound method never equals a number
LastIsNot(inputString_s, number) == TRUE

\* the condition of the while loop of analyze
LoopCondition(input_line, inputString_s) ==
    /\ input_line.pos < Len(input_line.s)
    /\ LastIsNot(inputString_s, NO_SYMBOL_NUMBER)

RECURSIVE TokenizeLoop(_, _, _)

\* line 173: findKey returned r.sym and left the cursor at r.pos.  An
\* iteration that leaves the cursor where it was and the condition true is
\* repeated for ever (each time appending the same number): hang.
TokenizeAppend(inputString_s, letterTrie, input_line, r) ==
    IF /\ r.pos = input_line.pos
       /\ LoopCondition([input_line EXCEPT !.pos = r.pos], Append(inputString_s, r.sym))
    THEN [hang |-> TRUE, s |-> Append(inputString_s, r.sym)]
    ELSE TokenizeLoop(Append(inputString_s, r.sym), letterTrie,
                      [input_line EXCEPT !.pos = r.pos])

\* the while loop of analyze: [hang, s], s the list inputString.s it builds
TokenizeLoop(inputString_s, letterTrie, input_line) ==
    IF LoopCondition(input_line, inputString_s)
    THEN TokenizeAppend(inputString_s, letterTrie, input_line,
                        findKey(letterTrie, input_line))
    ELSE [hang |-> FALSE, s |-> inputString_s]

\* lines 167-168 of analyze
AnalyzeReset(e) ==
    [e EXCEPT !.outputString = Indexlist(<<NO_SYMBOL_NUMBER>>), !.output_list = <<>>]

Outcome(ret, e) == [ret |-> ret, e |-> e]

\* lines 174-175: tok is what the while loop did
Tokenized(e, tok) ==
    IF tok.hang THEN Outcome("hang", [e EXCEPT !.inputString.s = tok.s])
    ELSE IF tok.s = <<>> THEN Outcome("IndexError", [e EXCEPT !.inputString.s = tok.s])
    ELSE IF tok.s[Len(tok.s)] = NO_SYMBOL_NUMBER
    THEN Outcome("False", [e EXCEPT !.inputString.s = tok.s])
    ELSE Outcome("", [e EXCEPT !.inputString.s = tok.s])

\* lines 170-175 of analyze: [ret, e]; ret is "" when the search is to start,
\* "False", the exception raised, or "hang"
AnalyzeTokenize(e, tb, string) ==
    Tokenized(e, TokenizeLoop(e.inputString.s, tb.letterTrie, Indexlist(Chars(string))))

\* the fields of the instance during a search, with the exception raised (none
\* yet), the getAnalyses argument index of the call that notes an analysis, and
\* the record of the analyses noted
WithExc(e) == e @@ [exc |-> "", index |-> Word(0), noted |-> <<>>, returns |-> <<>>]

WithoutExc(m) == [f \in (DOMAIN m) \ {"exc", "index", "noted", "returns"} |-> m[f]]

\* lines 178-183: getAnalyses(0) returned m
Searched(m) ==
    IF m.exc # "" THEN Outcome(m.exc, WithoutExc(m))
    ELSE Outcome("True", [WithoutExc(m) EXCEPT !.displayVector = <<>>,
                                               !.outputString = Indexlist(<<>>),
                                               !.inputString = Indexlist(<<>>),
                                               !.stateStack = <<EmptyDict>>])

\* lines 176-177 of analyze: the fields after getAnalyses(0), entered with m
SearchFrom(m, tb) == CameBack("getAnalyses", m, getAnalyses(m, tb, Word(0)))

\* lines 176-183 of analyze: [ret, e]; ret is "True" or the exception raised
AnalyzeSearch(e, tb) ==
    Searched(SearchFrom(WithExc([e EXCEPT !.inputString.s = Append(@, NO_SYMBOL_NUMBER)]),
                        tb))

\* the analyses noted by the search of analyze(string), each with the place it
\* was noted at; none when the tokenizing did not get to the search
NotedBy(t, tb) ==
    IF t.ret # "" THEN <<>>
    ELSE getAnalyses(WithExc([t.e EXCEPT !.inputString.s = Append(@, NO_SYMBOL_NUMBER)]),
                     tb, Word(0)).noted

\* the calls that returned during the search of analyze(string), in the order
\* they returned; none when the tokenizing did not get to the search
ReturnsBy(t, tb) ==
    IF t.ret # "" THEN <<>>
    ELSE SearchFrom(WithExc([t.e EXCEPT !.inputString.s = Append(@, NO_SYMBOL_NUMBER)]),
                    tb).returns

\* the search of analyze, when the tokenizing gave t
AnalyzeAfter(t, tb) == IF t.ret # "" THEN t ELSE AnalyzeSearch(t.e, tb)

\* Transducer.analyze(string): [ret, e]
analyze(e, tb, string) == AnalyzeAfter(AnalyzeTokenize(AnalyzeReset(e), tb, string), tb)

---------------------------------------------------------------------------
(* main.py: concat_res, HFSTOL.feed, HFSTOL.feed_in_bulk *)

RECURSIVE ConcatLoop(_, _, _, _)
\* the for loop of concat_res over the symbols left, then lines 293-295;
\* buffer is only ever added to
ConcatLoop(i, res, buffer, encountered) ==
    IF i = <<>>
    THEN IF encountered THEN Append(res, buffer) ELSE res
    ELSE IF Len(i[1]) = 1
    THEN ConcatLoop(Tail(i), res, buffer \o i[1], TRUE)
    ELSE ConcatLoop(Tail(i),
                    Append(IF encountered THEN Append(res, buffer) ELSE res, i[1]),
                    buffer, FALSE)

\* concat_res(i)
concat_res(i) == ConcatLoop(i, <<>>, <<>>, FALSE)

\* lines 72-75 of feed: the tuple made of output_list
FeedValue(output_list, concat) ==
    IF concat THEN [k \in 1..Len(output_list) |-> concat_res(output_list[k])]
    ELSE output_list

\* what a facade call did: outcome is "return", "raise" or "hang"
Returned(e, value) == [outcome |-> "return", exc |-> "", value |-> value, e |-> e]

Raised(e, exc) == [outcome |-> "raise", exc |-> exc, value |-> <<>>, e |-> e]

Hung(e) == [outcome |-> "hang", exc |-> "", value |-> <<>>, e |-> e]

\* lines 71-77 of feed: a is what analyze did
FeedAnalyzed(a, concat) ==
    CASE a.ret = "True"  -> Returned(a.e, FeedValue(a.e.output_list, concat))
      [] a.ret = "False" -> Returned(a.e, <<>>)
      [] a.ret = "hang"  -> Hung(a.e)
      [] OTHER           -> Raised(a.e, a.ret)

\* feed without lines 69-70: the empty string goes to the engine like any other
feedAlwaysAnalyzes(e, tb, surface_form, concat) ==
    FeedAnalyzed(analyze(e, tb, surface_form), concat)

\* HFSTOL.feed(surface_form, concat)
feed(e, tb, surface_form, concat) ==
    IF surface_form = <<>> THEN Returned(e, <<>>)
    ELSE FeedAnalyzed(analyze(e, tb, surface_form), concat)

\* set(tuple(...)): the elements of a tuple
Elements(tuple) == {tuple[k] : k \in 1..Len(tuple)}

RECURSIVE BulkLoop(_, _, _, _, _)

\* line 92: feed(string, concat) did r
BulkFed(r, tb, left, concat, res) ==
    IF r.outcome # "return" THEN [r EXCEPT !.value = EmptyDict]
    ELSE BulkLoop(r.e, tb, Tail(left), concat,
                  [res EXCEPT ![left[1]] = @ \cup Elements(r.value)])

\* the for loop of feed_in_bulk over the strings left
BulkLoop(e, tb, left, concat, res) ==
    IF left = <<>> THEN Returned(e, res)
    ELSE BulkFed(feed(e, tb, left[1], concat), tb, left, concat, res)

\* HFSTOL.feed_in_bulk(surface_forms, concat), surface_forms a list
feed_in_bulk(e, tb, surface_forms, concat) ==
    BulkLoop(e, tb, surface_forms, concat, [x \in Elements(surface_forms) |-> {}])

---------------------------------------------------------------------------
(* The files and inputs the model runs on *)

LE16(n) == <<n % 256, n \div 256>>

LE32(v) == <<v.off % 256, (v.off \div 256) % 256, (v.off \div 65536) % 256,
             (v.off \div 16777216) + (IF v.tt THEN 128 ELSE 0)>>

RECURSIVE Flatten(_)
Flatten(seqs) == IF seqs = <<>> THEN <<>> ELSE seqs[1] \o Flatten(Tail(seqs))

\* the 56 bytes of a fixed header
FixedHeaderBytes(nin, nsym, nidx, ntr, weighted) ==
    LE16(nin) \o LE16(nsym) \o LE32(Word(nidx)) \o LE32(Word(ntr))
    \o LE32(Word(0)) \o LE32(Word(0)) \o LE32(Word(weighted))
    \o Flatten([k \in 1..8 |-> LE32(Word(0))])

AlphabetBytes(syms) == Flatten([k \in 1..Len(syms) |-> syms[k] \o <<0>>])

IndexBytes(idx) == Flatten([k \in 1..Len(idx) |-> LE16(idx[k][1]) \o LE32(idx[k][2])])

TransitionBytes(tr) ==
    Flatten([k \in 1..Len(tr) |-> LE16(tr[k][1]) \o LE16(tr[k][2]) \o LE32(tr[k][3])])

\* an HFST3 preamble: the magic, the length of body, one byte, and body
Hfst3Bytes(body) == HFST3_MAGIC \o LE16(Len(body)) \o <<0>> \o body

FileBytes(nin, syms, idx, tr, weighted) ==
    FixedHeaderBytes(nin, Len(syms), Len(idx), Len(tr), weighted)
    \o AlphabetBytes(syms) \o IndexBytes(idx) \o TransitionBytes(tr)

\* The alphabet of the larger files, as stored:
\*   0 "@0@"  1 "a"  2 "b"  3 "ab"  4 "@P.F.V@"  5 "@R.F.V@"  6 "+N"  7 "â"
\* 0..5 are input symbols; 7 is two bytes of UTF-8.
Symbols ==
    << <<64, 48, 64>>, <<97>>, <<98>>, <<97, 98>>,
       <<64, 80, 46, 70, 46, 86, 64>>, <<64, 82, 46, 70, 46, 86, 64>>,
       <<43, 78>>, <<195, 162>> >>

NoIndex == <<NO_SYMBOL_NUMBER, NO_TABLE_INDEX>>

NoTransition == <<NO_SYMBOL_NUMBER, NO_SYMBOL_NUMBER, NO_TABLE_INDEX>>

FinalTransition == <<NO_SYMBOL_NUMBER, NO_SYMBOL_NUMBER, Word(1)>>

\* File A, laid out as the format prescribes. The start state is in the index
\* table; the states of the transition table have transitions on one input only.
\*   "a"  -> a +N          "ab" (one symbol) -> a +N b
\*   "b"  -> b â  on the path that sets F=V first; the direct path fails @R.F.V@
FileA ==
    FileBytes(6, Symbols,
      << NoIndex, <<0, Biased(0)>>, <<1, Biased(2)>>, <<2, Biased(13)>>,
         <<3, Biased(7)>>, NoIndex, NoIndex >>,
      << <<4, 0, Biased(17)>>,      \*  0  start: @P.F.V@ -> state 17
         NoTransition,              \*  1
         <<1, 1, Biased(3)>>,       \*  2  start: a:a -> state 3
         NoTransition,              \*  3  state 3
         <<0, 6, Biased(5)>>,       \*  4    eps:+N -> state 5
         FinalTransition,           \*  5  state 5, final
         NoTransition,              \*  6
         <<3, 1, Biased(8)>>,       \*  7  start: ab:a -> state 8
         NoTransition,              \*  8  state 8
         <<0, 6, Biased(10)>>,      \*  9    eps:+N -> state 10
         NoTransition,              \* 10  state 10
         <<0, 2, Biased(5)>>,       \* 11    eps:b -> state 5
         NoTransition,              \* 12
         <<2, 2, Biased(14)>>,      \* 13  start: b:b -> state 14
         NoTransition,              \* 14  state 14
         <<5, 7, Biased(5)>>,       \* 15    @R.F.V@:â -> state 5
         NoTransition,              \* 16
         NoTransition,              \* 17  state 17
         <<2, 2, Biased(14)>>,      \* 18    b:b -> state 14
         NoTransition >>,           \* 19
      0)

\* File B: state 1 of the transition table has an epsilon transition and a
\* transition on a.   "a" -> a +N      "aa" -> a b
FileB ==
    FileBytes(6, Symbols,
      << NoIndex, NoIndex, <<1, Biased(0)>>, NoIndex, NoIndex, NoIndex, NoIndex >>,
      << <<1, 1, Biased(1)>>,       \* 0  start: a:a -> state 1
         NoTransition,              \* 1  state 1
         <<0, 6, Biased(4)>>,       \* 2    eps:+N -> state 4
         <<1, 2, Biased(4)>>,       \* 3    a:b -> state 4
         FinalTransition,           \* 4  state 4, final
         NoTransition >>,           \* 5
      0)

\* File C: targets out of range. The index record of a refers past the end of
\* the transition table; the index record of b has a target below the bias.
FileC ==
    FileBytes(6, Symbols,
      << NoIndex, NoIndex, <<1, Biased(9)>>, <<2, Word(3)>>, NoIndex, NoIndex, NoIndex >>,
      << NoTransition >>,
      0)

\* a transducer whose start state is final, that reads a along two paths
\* with the same output, and whose state after b is final and also leaves
\* on an epsilon with output +N to a final state
FileD ==
    FileBytes(6, Symbols,
      << <<NO_SYMBOL_NUMBER, Word(1)>>, NoIndex, <<1, Biased(0)>>, <<2, Biased(4)>>,
         NoIndex, NoIndex, NoIndex >>,
      << <<1, 1, Biased(2)>>, <<1, 1, Biased(2)>>, FinalTransition, NoTransition,
         <<2, 2, Biased(5)>>, FinalTransition, <<0, 6, Biased(2)>>, NoTransition >>,
      0)

TinySymbols == << <<64, 48, 64>>, <<97>> >>

TinyIndex == << NoIndex, NoIndex, <<1, Biased(0)>> >>

TinyTransitions == << <<1, 1, Biased(1)>>, FinalTransition, NoTransition >>

\* a small file ("a" -> a), then with the weighted word set, with an HFST3
\* preamble, and with a symbol that is not UTF-8
FileTiny == FileBytes(2, TinySymbols, TinyIndex, TinyTransitions, 0)

FileWeighted == FileBytes(2, TinySymbols, TinyIndex, TinyTransitions, 1)

FileHfst3 == Hfst3Bytes(<<1, 2>>) \o FileTiny

\* FileTiny after an HFST3 preamble of no byte, and of one byte
FileHfst3Empty == Hfst3Bytes(<<>>) \o FileTiny

FileHfst3One == Hfst3Bytes(<<9>>) \o FileTiny

FileBadUtf8 == FileBytes(2, << <<64, 48, 64>>, <<255>> >>, TinyIndex, TinyTransitions, 0)

FileWeightedBadUtf8 ==
    FileBytes(2, << <<64, 48, 64>>, <<255>> >>, TinyIndex, TinyTransitions, 1)

\* every proper prefix of a file: the file cut short
Truncations(data) == [n \in 1..Len(data) |-> SubSeq(data, 1, n - 1)]

Files ==
    << FileA, FileB, FileC, FileTiny, FileWeighted, FileHfst3, FileBadUtf8,
       FileWeightedBadUtf8 >>
    \o Truncations(FileTiny) \o Truncations(FileWeighted) \o Truncations(FileHfst3)
    \o << FileD, FileHfst3Empty, FileHfst3One >>

\* the strings fed: "", a, b, ab, aa, x, +N, ax, @P.F.V@
SurfaceForms ==
    { <<>>, <<97>>, <<98>>, <<97, 98>>, <<97, 97>>, <<120>>, <<43, 78>>, <<97, 120>>,
      <<64, 80, 46, 70, 46, 86, 64>> }

\* the strings of the lists given to feed_in_bulk: "", a, ab, x
BulkForms == { <<>>, <<97>>, <<97, 98>>, <<120>> }

MaxBulk == 2

MaxInputString == 6

\* the lists of at most n elements of S
ListsUpTo(S, n) == UNION {[1..k -> S] : k \in 0..n}

ThreadIds == {1, 2}

\* the strings the threads feed: "", a, b, ab, +N
ThreadForms == { <<>>, <<97>>, <<98>>, <<97, 98>>, <<43, 78>> }

\* the symbols the alphabets given to the letter trie are made of, in the
\* order they take in a key table: a, b, ab, abc, abca, bc
TrieSymbols == << <<97>>, <<98>>, <<97, 98>>, <<97, 98, 99>>, <<97, 98, 99, 97>>,
                  <<98, 99>> >>

RECURSIVE Chosen(_, _, _)
\* the symbols of the list at the places in chosen, from place k on
Chosen(symbols, chosen, k) ==
    IF k > Len(symbols) THEN <<>>
    ELSE (IF k \in chosen THEN <<symbols[k]>> ELSE <<>>) \o Chosen(symbols, chosen, k + 1)

\* the key tables: the empty key of symbol 0, then some of the symbols
KeyTables == { << <<>> >> \o Chosen(TrieSymbols, chosen, 1) :
                 chosen \in SUBSET (1..Len(TrieSymbols)) }

\* the characters of the lines given to findKey: a, b, c
LineCharacters == {97, 98, 99}

MaxLine == 4

\* the symbol strings of the alphabets loaded alone: a, the empty string,
\* @P.F@, @R.F.V@, @P.F.V.W@, @P..@, @P.@, @U.F.@, @X.F@, @PxF@, @D.F
AlphabetStrings ==
    { <<97>>, <<>>, <<64, 80, 46, 70, 64>>, <<64, 82, 46, 70, 46, 86, 64>>,
      <<64, 80, 46, 70, 46, 86, 46, 87, 64>>, <<64, 80, 46, 46, 64>>,
      <<64, 80, 46, 64>>, <<64, 85, 46, 70, 46, 64>>, <<64, 88, 46, 70, 64>>,
      <<64, 80, 120, 70, 64>>, <<64, 68, 46, 70>> }

MaxSymbols == 2

\* a file with the alphabet symbols and the tables of FileTiny
AlphabetFile(symbols) ==
    FileBytes(Len(symbols), symbols, TinyIndex, TinyTransitions, 0)

\* the lists that _call_hfstol slices alone: at most MaxWords of the words a,
\* b, x, for at most MaxSlices processes
WordForms == { <<97>>, <<98>>, <<120>> }

MaxWords == 4

MaxSlices == 3

\* the flag diacritics pushed on the stack alone: the six operations on the
\* features F and G with no value or the value V or W
StackOperations == { <<80>>, <<78>>, <<82>>, <<68>>, <<67>>, <<85>> }

StackFeatures == { <<70>>, <<71>> }

StackValues == { <<>>, <<86>>, <<87>> }

MaxStack == 3

\* the file of the instance that feed_in_bulk_fast is called on: FileTiny
FastFiles == {4}

\* the words given to feed_in_bulk_fast: a, x
FastForms == { <<97>>, <<120>> }

MaxFast == 2

MaxProcesses == 2

MaxFastCalls == 2

---------------------------------------------------------------------------
(* The state machine: one run of a program that loads a file and then calls *)
(* the instance.  status is "none" before the load, then "ready" (an       *)
(* instance is held), "failed" (the load raised) or "hung" (a call never   *)
(* returns).  call records the last facade call made and how it ended.     *)

NoCall == [op |-> "none", file |-> 0, arg |-> <<>>, concat |-> FALSE,
           outcome |-> "none", exc |-> "", value |-> <<>>, before |-> NewEngine]

IdleThread == [pc |-> "idle", surface_form |-> <<>>, concat |-> FALSE,
               outcome |-> "none", exc |-> "", value |-> <<>>]

\* main.py:37-40 and 27: the instance's lookup processes (none yet) and whether
\* it and the interpreter are still there; the rest is the call in progress
NoFast == [instance |-> "live", interpreter |-> "running",
           hfstol_exe_path |-> FALSE, hfstol_processes |-> <<>>, spawned |-> <<>>,
           pc |-> "idle", inputs |-> <<>>, multi_process |-> 0, workers |-> <<>>,
           message_queue |-> <<>>, ended_count |-> 0, results |-> EmptyDict,
           printed |-> {}, calls |-> 0, requested |-> 0]

Init ==
    /\ status = "none"
    /\ tables = NoTables
    /\ engine = NewEngine
    /\ call = NoCall
    /\ threads = [t \in ThreadIds |-> IdleThread]
    /\ fast = NoFast

\* the load of Files[f] ended as r
Loaded(f, r) ==
    /\ status' = CASE r.exc = ""     -> "ready"
                   [] r.exc = "hang" -> "hung"
                   [] OTHER          -> "failed"
    /\ tables' = IF r.exc = "" THEN r.t ELSE NoTables
    /\ call' = [NoCall EXCEPT !.op = "from_file", !.file = f,
                   !.outcome = CASE r.exc = ""     -> "return"
                                 [] r.exc = "hang" -> "hang"
                                 [] OTHER          -> "raise",
                   !.exc = IF r.exc = "hang" THEN "" ELSE r.exc]

\* HFSTOL.from_file(Files[f]): the run's one instance, or the way the load ends
FromFile(f) ==
    /\ status = "none"
    /\ Loaded(f, from_file(Files[f]))
    /\ UNCHANGED <<engine, threads, fast>>

\* the facade call op(arg, concat) ended as r
Called(op, arg, concat, r) ==
    /\ engine' = r.e
    /\ status' = IF r.outcome = "hang" THEN "hung" ELSE "ready"
    /\ call' = [op |-> op, file |-> 0, arg |-> arg, concat |-> concat,
                outcome |-> r.outcome, exc |-> r.exc, value |-> r.value,
                before |-> engine]

\* a feed whose tokenization enters the string fed into the letter trie
FeedLearnsString(surface_form, concat) ==
    /\ status = "ready"
    /\ Len(engine.inputString.s) <= MaxInputString
    /\ Called("feed", surface_form, concat, feed(engine, tables, surface_form, concat))
    /\ tables' = IF surface_form = <<>> THEN tables
                 ELSE [tables EXCEPT !.letterTrie =
                          add(@, surface_form, NO_SYMBOL_NUMBER)]
    /\ UNCHANGED <<threads, fast>>

\* instance.feed(surface_form, concat), called and run to its end
Feed(surface_form, concat) ==
    /\ status = "ready"
    /\ Len(engine.inputString.s) <= MaxInputString
    /\ Called("feed", surface_form, concat, feed(engine, tables, surface_form, concat))
    /\ UNCHANGED <<tables, threads, fast>>

\* instance.feed_in_bulk(surface_forms, concat), called and run to its end
FeedInBulk(surface_forms, concat) ==
    /\ status = "ready"
    /\ Len(engine.inputString.s) <= MaxInputString
    /\ Called("feed_in_bulk", surface_forms, concat,
              feed_in_bulk(engine, tables, surface_forms, concat))
    /\ UNCHANGED <<tables, threads, fast>>

Next ==
    \/ \E f \in 1..Len(Files) : FromFile(f)
    \/ \E s \in SurfaceForms, c \in BOOLEAN : Feed(s, c)
    \/ \E l \in ListsUpTo(BulkForms, MaxBulk), c \in BOOLEAN : FeedInBulk(l, c)

Spec == Init /\ [][Next]_vars

---------------------------------------------------------------------------
(* Two threads, each calling feed once on the instance they share.  A      *)
(* thread can be preempted between any two statements; the steps below are *)
(* the places a switch is modelled at.                                     *)

Done(th, outcome, exc, value) ==
    [th EXCEPT !.pc = "done", !.outcome = outcome, !.exc = exc, !.value = value]

\* main.py:69-70: the call, and its return for the empty string
ThreadCall(t, surface_form, concat) ==
    /\ status = "ready"
    /\ threads[t].pc = "idle"
    /\ threads' = [threads EXCEPT ![t] =
          IF surface_form = <<>>
          THEN Done([@ EXCEPT !.surface_form = surface_form, !.concat = concat],
                    "return", "", <<>>)
          ELSE [@ EXCEPT !.pc = "reset", !.surface_form = surface_form,
                         !.concat = concat]]
    /\ UNCHANGED <<status, tables, engine, call, fast>>

\* transducer.py:167-168
ThreadReset(t) ==
    /\ status = "ready"
    /\ threads[t].pc = "reset"
    /\ engine' = AnalyzeReset(engine)
    /\ threads' = [threads EXCEPT ![t].pc = "tokenize"]
    /\ UNCHANGED <<status, tables, call, fast>>

\* the tokenizing of thread t ended as r
ThreadTokenized(t, r) ==
    /\ engine' = r.e
    /\ status' = IF r.ret = "hang" THEN "hung" ELSE status
    /\ threads' = [threads EXCEPT ![t] =
          CASE r.ret = ""      -> [@ EXCEPT !.pc = "search"]
            [] r.ret = "False" -> Done(@, "return", "", <<>>)
            [] r.ret = "hang"  -> [@ EXCEPT !.pc = "hung", !.outcome = "hang"]
            [] OTHER           -> Done(@, "raise", r.ret, <<>>)]

\* transducer.py:170-175
ThreadTokenize(t) ==
    /\ status = "ready"
    /\ threads[t].pc = "tokenize"
    /\ ThreadTokenized(t, AnalyzeTokenize(engine, tables, threads[t].surface_form))
    /\ UNCHANGED <<tables, call, fast>>

\* the search of thread t ended as r
ThreadSearched(t, r) ==
    /\ engine' = r.e
    /\ threads' = [threads EXCEPT ![t] =
          IF r.ret = "True" THEN [@ EXCEPT !.pc = "return"]
          ELSE Done(@, "raise", r.ret, <<>>)]

\* transducer.py:176-183
ThreadSearch(t) ==
    /\ status = "ready"
    /\ threads[t].pc = "search"
    /\ ThreadSearched(t, AnalyzeSearch(engine, tables))
    /\ UNCHANGED <<status, tables, call, fast>>

\* main.py:72-75: the result is made of the instance's output_list
ThreadReturn(t) ==
    /\ status = "ready"
    /\ threads[t].pc = "return"
    /\ threads' = [threads EXCEPT ![t] =
          Done(@, "return", "", FeedValue(engine.output_list, threads[t].concat))]
    /\ UNCHANGED <<status, tables, engine, call, fast>>

NextConc ==
    \/ \E f \in 1..Len(Files) : FromFile(f)
    \/ \E t \in ThreadIds, s \in ThreadForms, c \in BOOLEAN : ThreadCall(t, s, c)
    \/ \E t \in ThreadIds : ThreadReset(t)
    \/ \E t \in ThreadIds : ThreadTokenize(t)
    \/ \E t \in ThreadIds : ThreadSearch(t)
    \/ \E t \in ThreadIds : ThreadReturn(t)

SpecConc == Init /\ [][NextConc]_vars

---------------------------------------------------------------------------
(* feed_in_bulk_fast: the instance keeps a pool of hfst-optimized-lookup    *)
(* processes and talks to each through its pipes.  A call starts, for each  *)
(* process it uses, a worker thread that reads the process's output and a   *)
(* writer thread that writes the words; the main thread collects the lines  *)
(* the workers put on the message queue.  A line is a str; a process's      *)
(* stdin and stdout are the lists of the lines in the pipe.  The lookup     *)
(* program is not part of the package: it is taken to answer each input    *)
(* line with the lines main.py:202-210 describe and then an empty line.     *)

\* the None a worker puts on the queue when it is done
None == <<0 - 1>>

\* what the transducer of the lookup processes makes of a word: "a" has the
\* results a+N and a+V, any other word has none
Lookup(word) == IF word = <<97>> THEN << <<97, 43, 78>>, <<97, 43, 86>> >> ELSE <<>>

\* a lookup process that prints no empty line after its answer
ResponseBlockWithoutEmptyLine(word) ==
    IF Lookup(word) = <<>>
    THEN << word \o <<9>> \o word \o <<9, 43, 63, 10>> >>
    ELSE [k \in 1..Len(Lookup(word)) |-> word \o <<9>> \o Lookup(word)[k] \o <<10>>]

\* main.py:202-210: the lines a lookup process prints for a word, each ended
\* by "\n": word TAB result for each result, or word TAB word TAB +? when
\* there is none, and then an empty line
ResponseBlock(word) ==
    IF Lookup(word) = <<>>
    THEN << word \o <<9>> \o word \o <<9, 43, 63, 10>>, <<10>> >>
    ELSE [k \in 1..Len(Lookup(word)) |-> word \o <<9>> \o Lookup(word)[k] \o <<10>>]
         \o << <<10>> >>

\* main.py:114-127: a process as Popen leaves it
NewProcess == [stdin |-> <<>>, stdout |-> <<>>, running |-> TRUE, terminated |-> 0]

RECURSIVE SpawnLoop(_, _, _)

\* a loop that starts multi_process processes whatever the pool holds
SpawnLoopForEachCall(hfstol_processes, spawned, multi_process) ==
    [hfstol_processes |->
         hfstol_processes \o [k \in 1..multi_process |-> Len(spawned) + k],
     spawned |-> spawned \o [k \in 1..multi_process |-> NewProcess]]

\* main.py:113-128: the while loop that fills the pool up to multi_process
SpawnLoop(hfstol_processes, spawned, multi_process) ==
    IF Len(hfstol_processes) < multi_process
    THEN SpawnLoop(Append(hfstol_processes, Len(spawned) + 1),
                   Append(spawned, NewProcess), multi_process)
    ELSE [hfstol_processes |-> hfstol_processes, spawned |-> spawned]

RECURSIVE TerminateLoop(_, _)

\* an if in the place of the while: only the last process is popped
TerminateLast(hfstol_processes, spawned) ==
    IF hfstol_processes # <<>>
    THEN [hfstol_processes |-> SubSeq(hfstol_processes, 1, Len(hfstol_processes) - 1),
          spawned |-> [spawned EXCEPT ![hfstol_processes[Len(hfstol_processes)]] =
                          [@ EXCEPT !.running = FALSE, !.terminated = @ + 1]]]
    ELSE [hfstol_processes |-> hfstol_processes, spawned |-> spawned]

\* HFSTOL._terminate_all_processes: pop and terminate until the list is empty
TerminateLoop(hfstol_processes, spawned) ==
    IF hfstol_processes # <<>>
    THEN TerminateLoop(
             SubSeq(hfstol_processes, 1, Len(hfstol_processes) - 1),
             [spawned EXCEPT ![hfstol_processes[Len(hfstol_processes)]] =
                 [@ EXCEPT !.running = FALSE, !.terminated = @ + 1]])
    ELSE [hfstol_processes |-> hfstol_processes, spawned |-> spawned]

\* slices whose end is rounded up
WordsPerProcessRoundedUp(inputs, i, multi_process) ==
    SubSeq(inputs, (Len(inputs) * i) \div multi_process + 1,
                   (Len(inputs) * (i + 1) + multi_process - 1) \div multi_process)

\* main.py:157-161: words_per_process[i], i counted from 0
WordsPerProcess(inputs, i, multi_process) ==
    SubSeq(inputs, (Len(inputs) * i) \div multi_process + 1,
                   (Len(inputs) * (i + 1)) \div multi_process)

\* main.py:173-176, 187-191: the worker thread of the i-th process of the pool
NewWorker(proc, words) ==
    [proc |-> proc, words |-> words, written |-> 0, received_count |-> 0,
     old_line |-> <<>>, pc |-> "read"]

RECURSIVE Strip(_, _)
\* str.strip(chars)
Strip(str, chars) ==
    IF str = <<>> THEN str
    ELSE IF str[1] \in chars THEN Strip(Tail(str), chars)
    ELSE IF str[Len(str)] \in chars THEN Strip(SubSeq(str, 1, Len(str) - 1), chars)
    ELSE str

\* sub in str, for two strs
Contains(str, sub) ==
    \E i \in 1..(Len(str) + 1) :
        /\ i + Len(sub) - 1 <= Len(str)
        /\ SubSeq(str, i, i + Len(sub) - 1) = sub

\* main.py:213: "+?" not in rest and "+?" not in res, for the fields of a line
Unmarked(fields) ==
    /\ \A k \in 3..Len(fields) : fields[k] # <<43, 63>>
    /\ ~Contains(fields[2], <<43, 63>>)

\* the call of feed_in_bulk_fast in progress ends: what the caller gets
FastCalled(strings, outcome, exc, value) ==
    call' = [op |-> "feed_in_bulk_fast", file |-> 0, arg |-> strings,
             concat |-> FALSE, outcome |-> outcome, exc |-> exc, value |-> value,
             before |-> engine]

\* main.py:157-195: the call goes on with the pool as the spawn loop left it
FastStarted(strings, multi_process, pool) ==
    /\ fast' = [fast EXCEPT
           !.hfstol_processes = pool.hfstol_processes,
           !.spawned = pool.spawned,
           !.pc = "collect",
           !.inputs = strings,
           !.multi_process = multi_process,
           !.workers = [i \in 1..multi_process |->
                           NewWorker(pool.hfstol_processes[i],
                                     WordsPerProcess(strings, i - 1, multi_process))],
           !.message_queue = <<>>,
           !.ended_count = 0,
           !.results = [original \in Elements(strings) |-> {}],
           !.printed = {},
           !.calls = @ + 1,
           !.requested = IF multi_process > @ THEN multi_process ELSE @]
    /\ FastCalled(strings, "running", "", EmptyDict)

\* the instance can be called: it exists, no call is in progress on it
Callable ==
    /\ status = "ready"
    /\ fast.instance = "live"
    /\ fast.interpreter = "running"
    /\ fast.pc = "idle"

\* HFSTOL.from_file, with what shutil.which finds at main.py:37
Construct(f, which) ==
    /\ status = "none"
    /\ Loaded(f, from_file(Files[f]))
    /\ fast' = [fast EXCEPT !.hfstol_exe_path = which]
    /\ UNCHANGED <<engine, threads>>

\* instance.feed_in_bulk_fast(strings, multi_process) up to the start of the
\* main loop (main.py:105-195), or its ImportError
FeedInBulkFast(strings, multi_process) ==
    /\ Callable
    /\ fast.calls < MaxFastCalls
    /\ IF ~fast.hfstol_exe_path
       THEN /\ FastCalled(strings, "raise", "ImportError", EmptyDict)
            /\ fast' = [fast EXCEPT !.calls = @ + 1]
       ELSE FastStarted(strings, multi_process,
                        SpawnLoop(fast.hfstol_processes, fast.spawned, multi_process))
    /\ UNCHANGED <<status, tables, engine, threads>>

\* main.py:168-171: the writer thread of worker i writes its next line
WriteLine(i) ==
    /\ i \in DOMAIN fast.workers
    /\ fast.workers[i].written < Len(fast.workers[i].words)
    /\ fast.spawned[fast.workers[i].proc].running
    /\ fast' = [fast EXCEPT
           !.spawned[fast.workers[i].proc].stdin =
               Append(@, fast.workers[i].words[fast.workers[i].written + 1]),
           !.workers[i].written = @ + 1]
    /\ UNCHANGED <<status, tables, engine, call, threads>>

\* the lookup process p reads a line and prints its answer
ProcessAnswer(p) ==
    /\ p \in DOMAIN fast.spawned
    /\ fast.spawned[p].running
    /\ fast.spawned[p].stdin # <<>>
    /\ fast' = [fast EXCEPT
           !.spawned[p].stdin = Tail(@),
           !.spawned[p].stdout = @ \o ResponseBlock(fast.spawned[p].stdin[1]),
           !.printed = @ \cup Elements(ResponseBlock(fast.spawned[p].stdin[1]))]
    /\ UNCHANGED <<status, tables, engine, call, threads>>

\* a worker that counts the lines of the answers instead of their ends
WorkerCountsLines(w, line) ==
    [w EXCEPT !.received_count = IF line # <<>> THEN @ + 1 ELSE @,
              !.old_line = line]

\* main.py:180-184: what worker w does with the line it read
WorkerLine(w, line) ==
    [w EXCEPT !.received_count = IF line = <<>> /\ w.old_line # <<>> THEN @ + 1 ELSE @,
              !.old_line = line]

\* main.py:178-184: one turn of the worker's while loop, once a line is there
WorkerRead(i) ==
    /\ i \in DOMAIN fast.workers
    /\ fast.workers[i].pc = "read"
    /\ fast.workers[i].received_count < Len(fast.workers[i].words)
    /\ fast.spawned[fast.workers[i].proc].stdout # <<>>
    /\ fast' = [fast EXCEPT
           !.spawned[fast.workers[i].proc].stdout = Tail(@),
           !.message_queue =
               IF Strip(fast.spawned[fast.workers[i].proc].stdout[1], {13, 10}) # <<>>
               THEN Append(@, Strip(fast.spawned[fast.workers[i].proc].stdout[1], {13, 10}))
               ELSE @,
           !.workers[i] =
               WorkerLine(@, Strip(fast.spawned[fast.workers[i].proc].stdout[1], {13, 10}))]
    /\ UNCHANGED <<status, tables, engine, call, threads>>

\* main.py:178, 185: the worker's loop ends and it puts None
WorkerEnd(i) ==
    /\ i \in DOMAIN fast.workers
    /\ fast.workers[i].pc = "read"
    /\ ~(fast.workers[i].received_count < Len(fast.workers[i].words))
    /\ fast' = [fast EXCEPT !.message_queue = Append(@, None),
                            !.workers[i].pc = "done"]
    /\ UNCHANGED <<status, tables, engine, call, threads>>

\* a main loop that stops at the first None
CollectingUntilFirstNone(ended_count, multi_process) == ended_count = 0

\* main.py:197: the test of the main loop
Collecting(ended_count, multi_process) == ended_count # multi_process

\* the main thread raises exc out of the call
MainRaises(exc) ==
    /\ fast' = [fast EXCEPT !.pc = "idle", !.message_queue = Tail(@)]
    /\ FastCalled(fast.inputs, "raise", exc, EmptyDict)

\* main.py:211-214: the main thread takes the fields of a line
MainFields(fields) ==
    IF Len(fields) < 2 THEN MainRaises("ValueError")
    ELSE IF ~Unmarked(fields)
    THEN /\ fast' = [fast EXCEPT !.message_queue = Tail(@)]
         /\ UNCHANGED call
    ELSE IF fields[1] \notin DOMAIN fast.results THEN MainRaises("KeyError")
    ELSE /\ fast' = [fast EXCEPT !.message_queue = Tail(@),
                                 !.results[fields[1]] = @ \cup {fields[2]}]
         /\ UNCHANGED call

\* main.py:197-214: one turn of the main loop, once the queue holds a line
MainGet ==
    /\ fast.pc = "collect"
    /\ Collecting(fast.ended_count, fast.multi_process)
    /\ fast.message_queue # <<>>
    /\ IF fast.message_queue[1] = None
       THEN /\ fast' = [fast EXCEPT !.message_queue = Tail(@), !.ended_count = @ + 1]
            /\ UNCHANGED call
       ELSE MainFields(Split(fast.message_queue[1], 9))
    /\ UNCHANGED <<status, tables, engine, threads>>

\* main.py:197, 216: the main loop ends and the call returns results
MainReturn ==
    /\ fast.pc = "collect"
    /\ ~Collecting(fast.ended_count, fast.multi_process)
    /\ fast' = [fast EXCEPT !.pc = "idle"]
    /\ FastCalled(fast.inputs, "return", "", fast.results)
    /\ UNCHANGED <<status, tables, engine, threads>>

\* the instance's processes and list after _terminate_all_processes
Terminated(pool) ==
    [fast EXCEPT !.hfstol_processes = pool.hfstol_processes, !.spawned = pool.spawned,
                 !.requested = 0]

\* a call of instance._terminate_all_processes()
TerminateAllProcesses ==
    /\ Callable
    /\ fast.hfstol_processes # <<>>
    /\ fast' = Terminated(TerminateLoop(fast.hfstol_processes, fast.spawned))
    /\ UNCHANGED <<status, tables, engine, call, threads>>

\* del instance, the last reference to it: __del__ runs (main.py:218-219)
Del ==
    /\ status = "ready"
    /\ fast.instance = "live"
    /\ fast.pc = "idle"
    /\ fast' = [Terminated(TerminateLoop(fast.hfstol_processes, fast.spawned))
                   EXCEPT !.instance = "deleted"]
    /\ UNCHANGED <<status, tables, engine, call, threads>>

\* the interpreter exits: the atexit hook (main.py:230-238) goes over the
\* instances still in ACTIVE_HFSTOL_INSTANCES
AtExit ==
    /\ status = "ready"
    /\ fast.interpreter = "running"
    /\ fast.pc = "idle"
    /\ fast' = [(IF fast.instance = "live"
                 THEN Terminated(TerminateLoop(fast.hfstol_processes, fast.spawned))
                 ELSE fast)
                   EXCEPT !.interpreter = "exited"]
    /\ UNCHANGED <<status, tables, engine, call, threads>>

NextFast ==
    \/ \E f \in FastFiles, which \in BOOLEAN : Construct(f, which)
    \/ \E l \in ListsUpTo(FastForms, MaxFast), m \in 1..MaxProcesses : FeedInBulkFast(l, m)
    \/ \E i \in 1..MaxProcesses : WriteLine(i)
    \/ \E p \in 1..(MaxProcesses * MaxFastCalls) : ProcessAnswer(p)
    \/ \E i \in 1..MaxProcesses : WorkerRead(i)
    \/ \E i \in 1..MaxProcesses : WorkerEnd(i)
    \/ MainGet
    \/ MainReturn
    \/ TerminateAllProcesses
    \/ Del
    \/ AtExit

SpecFast == Init /\ [][NextFast]_vars

\* the threads of a call and the lookup processes all get to run: a step of
\* theirs that stays possible is taken
FastFairness ==
    /\ \A i \in 1..MaxProcesses :
           WF_vars(WriteLine(i)) /\ WF_vars(WorkerRead(i)) /\ WF_vars(WorkerEnd(i))
    /\ \A p \in 1..(MaxProcesses * MaxFastCalls) : WF_vars(ProcessAnswer(p))
    /\ WF_vars(MainGet)
    /\ WF_vars(MainReturn)

SpecFastFair == SpecFast /\ FastFairness

---------------------------------------------------------------------------
(* The letter trie alone: a trie is built from a key table as the Transducer *)
(* constructor builds it, and findKey is called on a cursor.               *)

\* transducer.py:72-74 and a call letterTrie.findKey(indexstring) with the
\* cursor of indexstring at pos; call.value is the number returned and the
\* cursor the call leaves
FindKeyCalled(key_table, letterTrie, indexstring) ==
    /\ tables' = [NoTables EXCEPT !.key_table = key_table, !.letterTrie = letterTrie]
    /\ call' = [NoCall EXCEPT !.op = "findKey", !.arg = indexstring,
                              !.outcome = "return",
                              !.value = findKey(letterTrie, indexstring)]

\* one run builds one trie and makes one call
FindKey(key_table, string, pos) ==
    /\ call.op = "none"
    /\ FindKeyCalled(key_table, addStrings(Node, key_table, 0, Len(key_table)),
                     [Indexlist(Chars(string)) EXCEPT !.pos = pos])
    /\ UNCHANGED <<status, engine, threads, fast>>

NextTrie ==
    /\ call.op = "none"
    /\ \E key_table \in KeyTables, string \in ListsUpTo(LineCharacters, MaxLine) :
           \E pos \in 0..(Len(string) + 1) : FindKey(key_table, string, pos)

SpecTrie == Init /\ [][NextTrie]_vars

---------------------------------------------------------------------------
(* The load alone, over files that differ in their alphabet. *)

\* the load of AlphabetFile(symbols) ended as r
AlphabetLoaded(symbols, r) ==
    /\ status' = CASE r.exc = ""     -> "ready"
                   [] r.exc = "hang" -> "hung"
                   [] OTHER          -> "failed"
    /\ tables' = IF r.exc = "" THEN r.t ELSE NoTables
    /\ call' = [NoCall EXCEPT !.op = "from_file", !.arg = symbols,
                   !.outcome = CASE r.exc = ""     -> "return"
                                 [] r.exc = "hang" -> "hang"
                                 [] OTHER          -> "raise",
                   !.exc = IF r.exc = "hang" THEN "" ELSE r.exc]

\* HFSTOL.from_file on the file AlphabetFile(symbols)
FromAlphabetFile(symbols) ==
    /\ AlphabetLoaded(symbols, from_file(AlphabetFile(symbols)))
    /\ UNCHANGED <<engine, threads, fast>>

NextAlphabet ==
    /\ status = "none"
    /\ \E symbols \in ListsUpTo(AlphabetStrings, MaxSymbols) \ {<<>>} :
           FromAlphabetFile(symbols)

SpecAlphabet == Init /\ [][NextAlphabet]_vars

---------------------------------------------------------------------------
(* _call_hfstol alone, up to the lines its writer threads write: the call    *)
(* on a new pool of multi_process processes, which have not read yet.        *)

\* main.py:113-195 for the list inputs and multi_process processes
CallHfstol(inputs, multi_process) ==
    /\ FastStarted(inputs, multi_process, SpawnLoop(<<>>, <<>>, multi_process))
    /\ UNCHANGED <<status, tables, engine, threads>>

NextWords ==
    \/ /\ call.op = "none"
       /\ \E inputs \in ListsUpTo(WordForms, MaxWords), m \in 1..MaxSlices :
              CallHfstol(inputs, m)
    \/ \E i \in 1..MaxSlices : WriteLine(i)

SpecWords == Init /\ [][NextWords]_vars

---------------------------------------------------------------------------
(* The flag-diacritic stack alone: a FlagDiacriticStateStack as its          *)
(* constructor leaves it (engine.stateStack), with push and pop called on it. *)

\* stateStack.push(flag_diacritic) returned r
StackPushed(flag_diacritic, r) ==
    /\ engine' = [engine EXCEPT !.stateStack = r.stack]
    /\ call' = [NoCall EXCEPT !.op = "push", !.arg = flag_diacritic,
                              !.outcome = "return", !.value = r.ok,
                              !.before = engine]

\* stateStack.push(FlagDiacriticOperation(op, feat, val))
StackPush(op, feat, val) ==
    /\ status = "none"
    /\ Len(engine.stateStack) < MaxStack
    /\ StackPushed(FlagDiacriticOperation(op, feat, val),
                   push(engine.stateStack, FlagDiacriticOperation(op, feat, val)))
    /\ UNCHANGED <<status, tables, threads, fast>>

\* stateStack.pop(), as the search calls it after a push that succeeded
StackPop ==
    /\ status = "none"
    /\ Len(engine.stateStack) > 1
    /\ engine' = [engine EXCEPT !.stateStack = pop(@)]
    /\ call' = [NoCall EXCEPT !.op = "pop", !.outcome = "return", !.before = engine]
    /\ UNCHANGED <<status, tables, threads, fast>>

NextStack ==
    \/ \E op \in StackOperations, feat \in StackFeatures, val \in StackValues :
           StackPush(op, feat, val)
    \/ StackPop

SpecStack == Init /\ [][NextStack]_vars

---------------------------------------------------------------------------
(* The automaton the tables encode, read off the records without a search.  *)
(* A state is a table position: target.tt tells the transition table from   *)
(* the index table.  The transitions of a state of the transition table are *)
(* the records after its own up to the next state's record; those of a      *)
(* state of the index table are reached through its slot for the symbol.    *)

\* whether the record rec is taken on a; a = 0 asks for the moves that read
\* no input: epsilon and the flag diacritics
Matches(tb, rec, a) ==
    IF a = 0
    THEN rec.inputSymbol = 0 \/ rec.inputSymbol \in DOMAIN tb.flagDiacriticOperations
    ELSE rec.inputSymbol = a

\* the positions from k on of the records of one state
StateRecords(tb, k) ==
    {j \in k..(Len(tb.transitions) - 1) :
        \A i \in k..j : At(tb.transitions, i).inputSymbol # NO_SYMBOL_NUMBER}

\* the positions of the records that leave state st on a
Moves(tb, st, a) ==
    IF st.tt
    THEN {j \in StateRecords(tb, st.off + 1) : Matches(tb, At(tb.transitions, j), a)}
    ELSE IF /\ InRange(tb.indices, st.off + 1 + a)
            /\ At(tb.indices, st.off + 1 + a).inputSymbol = a
            /\ At(tb.indices, st.off + 1 + a).target.tt
    THEN {j \in StateRecords(tb, At(tb.indices, st.off + 1 + a).target.off) :
             \A i \in At(tb.indices, st.off + 1 + a).target.off..j :
                 Matches(tb, At(tb.transitions, i), a)}
    ELSE {}

\* whether st is a final state
Final(tb, st) ==
    IF st.tt
    THEN InRange(tb.transitions, st.off) /\ TransitionIsFinal(At(tb.transitions, st.off))
    ELSE InRange(tb.indices, st.off) /\ IndexIsFinal(At(tb.indices, st.off))

RECURSIVE PathsFrom(_, _, _, _, _)

\* the outputs of the accepting paths that start with the record rec, which
\* reads no input
PathsVia(tb, rec, rest, frames, out) ==
    IF rec.inputSymbol = 0
    THEN PathsFrom(tb, rec.target, rest, frames, Append(out, rec.outputSymbol))
    ELSE LET p == push(frames, tb.flagDiacriticOperations[rec.inputSymbol]) IN
         IF p.ok
         THEN PathsFrom(tb, rec.target, rest, p.stack, Append(out, rec.outputSymbol))
         ELSE {}

\* the outputs, each after out, of the accepting paths from st that consume rest
PathsFrom(tb, st, rest, frames, out) ==
    (IF rest = <<>> /\ Final(tb, st) THEN {out} ELSE {})
    \cup UNION {PathsVia(tb, At(tb.transitions, j), rest, frames, out) :
                   j \in Moves(tb, st, 0)}
    \cup (IF rest = <<>> THEN {}
          ELSE UNION {PathsFrom(tb, At(tb.transitions, j).target, Tail(rest), frames,
                                Append(out, At(tb.transitions, j).outputSymbol)) :
                         j \in Moves(tb, st, rest[1])})

RECURSIVE Tokens(_, _)
\* the longest-match tokens of the rest of line; NO_SYMBOL_NUMBER ends the
\* list where the letter trie has no match
Tokens(letterTrie, line) ==
    IF line.pos >= Len(line.s) THEN <<>>
    ELSE LET r == findKey(letterTrie, line) IN
         IF r.sym = NO_SYMBOL_NUMBER THEN <<NO_SYMBOL_NUMBER>>
         ELSE <<r.sym>> \o Tokens(letterTrie, [line EXCEPT !.pos = r.pos])

TokensOf(tb, string) == Tokens(tb.letterTrie, Indexlist(Chars(string)))

TokenizesCompletely(tb, string) == NO_SYMBOL_NUMBER \notin Elements(TokensOf(tb, string))

\* the symbol lists of the accepting paths for string
AcceptedOutputs(tb, string) ==
    {Translate(tb.key_table, out).symbol_list :
        out \in PathsFrom(tb, Word(0), TokensOf(tb, string), <<EmptyDict>>, <<>>)}

\* what feed(surface_form, concat) does on an instance no call was made on
Alone(tb, surface_form, concat) == feed(NewEngine, tb, surface_form, concat)

\* how a call ended, without the state it left
Result(r) == <<r.outcome, r.exc, r.value>>

---------------------------------------------------------------------------
(* The claims *)

\* C1: for every input string that tokenizes completely, the analyses feed
\* returns with concat=False contain the output symbol sequence of every
\* accepting path of the automaton the tables encode, also of the paths through
\* a transition-table state that has both epsilon or flag transitions and
\* transitions on the current input symbol.  (Stated for a call on an instance
\* whose engine is as construction left it.)
AnalysesHoldEveryAcceptingPath ==
    (/\ call.op = "feed"
     /\ ~call.concat
     /\ call.before = NewEngine
     /\ call.outcome = "return"
     /\ TokenizesCompletely(tables, call.arg))
    => AcceptedOutputs(tables, call.arg) \subseteq Elements(call.value)

\* C2: for every non-empty input with a character the letter trie has no
\* match for, feed returns the empty result, with concat or without, and does
\* not raise.
UnmatchedCharacterGivesEmptyResult ==
    (/\ call.op = "feed"
     /\ call.arg # <<>>
     /\ ~TokenizesCompletely(tables, call.arg))
    => (call.outcome = "return" /\ call.value = <<>>)

RECURSIVE FuseRuns(_, _)
\* the list i with every maximal run of one-character symbols made one string;
\* run is the run read so far
FuseRuns(i, run) ==
    IF i = <<>> THEN (IF run = <<>> THEN <<>> ELSE <<run>>)
    ELSE IF Len(i[1]) = 1 THEN FuseRuns(Tail(i), run \o i[1])
    ELSE (IF run = <<>> THEN <<>> ELSE <<run>>) \o <<i[1]>> \o FuseRuns(Tail(i), <<>>)

\* C3: concat_res fuses each maximal run of adjacent one-character symbols into
\* one string of exactly that run's characters and keeps every longer symbol
\* in its place, also when there are two or more runs: each analysis feed
\* returns with concat=True is the fused form of the analysis it returns with
\* concat=False.
ConcatResFusesEachRun ==
    (/\ call.op = "feed"
     /\ call.concat
     /\ call.outcome = "return")
    => LET plain == feed(call.before, tables, call.arg, FALSE).value IN
       /\ Len(call.value) = Len(plain)
       /\ \A k \in 1..Len(plain) : call.value[k] = FuseRuns(plain[k], <<>>)

\* C4: feed is deterministic over any sequence of calls on one instance: the
\* result of feed(s, concat) is the one it gives on a new instance, whatever
\* feed calls were made before it.
FeedResultIndependentOfHistory ==
    call.op = "feed"
    => <<call.outcome, call.exc, call.value>> = Result(Alone(tables, call.arg, call.concat))

\* C5: for every interleaving of two feed calls on one instance, each call
\* returns the result it returns when run alone.
ConcurrentFeedReturnsAloneResult ==
    \A t \in ThreadIds :
        threads[t].pc = "done"
        => <<threads[t].outcome, threads[t].exc, threads[t].value>>
               = Result(Alone(tables, threads[t].surface_form, threads[t].concat))

\* C6: feed_in_bulk(xs, concat) returns a map whose keys are exactly the
\* distinct strings of xs (unrecognised strings and the empty string among
\* them) and whose value for x is the set of the analyses of feed(x, concat).
\* (Stated for a call on an instance whose engine is as construction left it.)
BulkMapsEachStringToItsAnalyses ==
    (call.op = "feed_in_bulk" /\ call.before = NewEngine)
    => /\ call.outcome = "return"
       /\ DOMAIN call.value = Elements(call.arg)
       /\ \A x \in Elements(call.arg) :
              call.value[x] = Elements(Alone(tables, x, call.concat).value)

\* C7: feed("", concat) returns the empty result and leaves the transducer's
\* search state (input vector, output buffer, flag stack, result list) as the
\* call found it.
EmptyInputLeavesEngineUntouched ==
    (call.op = "feed" /\ call.arg = <<>>)
    => /\ call.outcome = "return"
       /\ call.value = <<>>
       /\ engine = call.before

\* C7, its case: feed("") was called on an engine an earlier call left dirty
EmptyInputFedToDirtyEngine ==
    /\ call.op = "feed"
    /\ call.arg = <<>>
    /\ call.before # NewEngine
    /\ call.before.inputString.s # <<>>

\* whether data starts with a complete header whose weighted word is not zero
WeightedHeader(data) == Header(data).exc = "" /\ Header(data).h.weighted

\* C8: from_file on a file whose header has a nonzero weighted word always
\* fails with the error for weighted files, whatever follows the header, and
\* returns no instance.
WeightedFileAlwaysRefused ==
    (call.op = "from_file" /\ WeightedHeader(Files[call.file]))
    => /\ call.outcome = "raise"
       /\ call.exc = "NotImplementedError"
       /\ status # "ready"

\* whether data is an unweighted file of the model cut short
CutShort(data) ==
    \E full \in {FileTiny, FileHfst3} :
        Len(data) < Len(full) /\ data = SubSeq(full, 1, Len(data))

\* C9: from_file on a file that ends before the header, the alphabet or a
\* table is complete stops by raising an error that is neither the weighted
\* error nor the invalid-UTF-8 error, and returns no transducer.
TruncatedFileRaisesItsOwnError ==
    (call.op = "from_file" /\ CutShort(Files[call.file]))
    => /\ call.outcome = "raise"
       /\ call.exc \notin {"NotImplementedError", "UnicodeDecodeError"}
       /\ status # "ready"

\* whether some record of the tables has a target out of range: past the end
\* of the transition table, or, in an index record with a real input symbol,
\* below the start of the transition table
OutOfRangeTarget(tb) ==
    \/ \E k \in 1..Len(tb.indices) :
          /\ tb.indices[k].inputSymbol # NO_SYMBOL_NUMBER
          /\ \/ ~tb.indices[k].target.tt
             \/ tb.indices[k].target.off >= Len(tb.transitions)
    \/ \E k \in 1..Len(tb.transitions) :
          /\ tb.transitions[k].inputSymbol # NO_SYMBOL_NUMBER
          /\ tb.transitions[k].target.tt
          /\ tb.transitions[k].target.off >= Len(tb.transitions)

\* C10: from_file returns no transducer when some record's target is out of
\* range, so that no feed call ever dereferences such a target.
NoInstanceWithOutOfRangeTarget ==
    status = "ready" => ~OutOfRangeTarget(tables)

\* C11: the result of one feed call holds no analysis more than once, also
\* when two different accepting paths produce the same output sequence.
FeedResultHoldsNoAnalysisTwice ==
    (call.op = "feed" /\ call.outcome = "return")
    => \A k, j \in 1..Len(call.value) : call.value[k] = call.value[j] => k = j

\* C12: no feed or feed_in_bulk call changes the index table, the transition
\* table, the letter trie, the key table or the flag-operation map: a step that
\* is such a call leaves all of them as they were, so that after any sequence
\* of calls they are what from_file built.
FeedCallsLeaveTablesAlone ==
    [][call'.op \in {"feed", "feed_in_bulk"} => tables' = tables]_vars

\* C12, its case: a call has returned analyses on an instance that an earlier
\* call had already used
TablesAfterSeveralCalls ==
    /\ call.op \in {"feed", "feed_in_bulk"}
    /\ call.outcome = "return"
    /\ call.value # <<>>
    /\ call.before.output_list # <<>>
    /\ tables.transitions # <<>>
    /\ tables.letterTrie # Node

\* the result strings among the lines the lookup processes printed for x
\* during the call, the lines marked +? left out
PrintedFor(x) ==
    { Split(Strip(l, {13, 10}), 9)[2] :
        l \in { pl \in fast.printed :
                  /\ Strip(pl, {13, 10}) # <<>>
                  /\ Split(Strip(pl, {13, 10}), 9)[1] = x
                  /\ ~Contains(pl, <<43, 63>>) } }

\* C13: for any list of inputs and any multi_process >= 1, under every
\* interleaving of the threads, feed_in_bulk_fast does not raise and returns a
\* map whose keys are the distinct inputs and whose value for x is the set of
\* the result strings the processes printed for x without the +? lines; that
\* is the set of x's lookup results whatever multi_process is (so the map is
\* the same for 1 and for 2), and no line is left on the queue.
FastReturnsWhatProcessesPrinted ==
    /\ (call.op = "feed_in_bulk_fast" /\ fast.hfstol_exe_path)
       => call.outcome \in {"running", "return"}
    /\ (call.op = "feed_in_bulk_fast" /\ call.outcome = "return")
       => /\ DOMAIN call.value = Elements(call.arg)
          /\ \A x \in DOMAIN call.value : call.value[x] = PrintedFor(x)
          /\ call.value = [x \in Elements(call.arg) |-> Elements(Lookup(x))]
          /\ fast.message_queue = <<>>

\* C13, its case: a call with two processes has returned the results of a
\* recognised and of an unrecognised word
FastReturnedFromTwoProcesses ==
    /\ call.op = "feed_in_bulk_fast"
    /\ call.outcome = "return"
    /\ fast.multi_process = 2
    /\ call.arg = << <<97>>, <<120>> >>
    /\ Cardinality(call.value[<<97>>]) = 2
    /\ call.value[<<120>>] = {}

\* whether the call that returned left nothing behind: each of its workers
\* wrote all its words and read the end of one answer for each, through the
\* pool's process of its rank, and the pipes of the pool are empty
NothingLeftToRead ==
    /\ DOMAIN call.value = Elements(call.arg)
    /\ \A i \in DOMAIN fast.workers :
          /\ fast.workers[i].proc = fast.hfstol_processes[i]
          /\ fast.workers[i].written = Len(fast.workers[i].words)
          /\ fast.workers[i].received_count = Len(fast.workers[i].words)
    /\ \A k \in DOMAIN fast.hfstol_processes :
          /\ fast.spawned[fast.hfstol_processes[k]].stdin = <<>>
          /\ fast.spawned[fast.hfstol_processes[k]].stdout = <<>>

\* C14: in any sequence of feed_in_bulk_fast calls on one instance, a call
\* keeps the processes the pool already holds (it only adds to them), every
\* call that has started returns, and when a call has returned its map has a
\* key for each of its inputs, each worker has read exactly one complete answer
\* for every line written to its process, and nothing is left in a pipe for a
\* later call to read.
FastCallsReuseProcessesAndLeaveNothing ==
    /\ []((/\ call.op = "feed_in_bulk_fast"
           /\ call.outcome = "return"
           /\ fast.pc = "idle"
           /\ fast.hfstol_processes # <<>>)
          => NothingLeftToRead)
    /\ [][fast'.calls # fast.calls
          => SubSeq(fast'.hfstol_processes, 1, Len(fast.hfstol_processes))
                 = fast.hfstol_processes]_vars
    /\ (fast.pc = "collect" ~> fast.pc = "idle")

\* C14, its case: a call on one process has returned after an earlier call
\* that used two, and found the pool as that call left it
SecondFastCallReturned ==
    /\ fast.calls = 2
    /\ call.op = "feed_in_bulk_fast"
    /\ call.outcome = "return"
    /\ call.arg = << <<97>>, <<97>> >>
    /\ fast.multi_process = 1
    /\ Len(fast.hfstol_processes) = 2
    /\ Len(fast.spawned) = 2

\* C15: every process the instance has spawned is sent terminate when the
\* instance is deleted, and at interpreter exit when the instance is still
\* referenced; after _terminate_all_processes the process list is empty, each
\* process was terminated exactly once and none is left running.  (The
\* processes still in the list are the ones running and not terminated.)
SpawnedProcessesTerminatedOnce ==
    /\ \A p \in DOMAIN fast.spawned :
          IF p \in Elements(fast.hfstol_processes)
          THEN fast.spawned[p].running /\ fast.spawned[p].terminated = 0
          ELSE ~fast.spawned[p].running /\ fast.spawned[p].terminated = 1
    /\ (fast.instance = "deleted" \/ fast.interpreter = "exited")
       => fast.hfstol_processes = <<>>

\* C15, its case: an instance that had spawned two processes was deleted
InstanceWithTwoProcessesDeleted ==
    /\ fast.instance = "deleted"
    /\ fast.interpreter = "running"
    /\ Len(fast.spawned) = 2
    /\ \A p \in DOMAIN fast.spawned : fast.spawned[p].terminated = 1

\* the analyses the search of the last feed call noted, each with the place it
\* was noted at
NotedByCall ==
    IF call.op = "feed" /\ call.arg # <<>>
    THEN NotedBy(AnalyzeTokenize(AnalyzeReset(call.before), tables, call.arg), tables)
    ELSE <<>>

RECURSIVE PrefixKeys(_, _, _)
\* the keys of the symbols s[0..n) of an output buffer, the empty keys left out
PrefixKeys(key_table, s, n) ==
    IF n = 0 THEN <<>>
    ELSE PrefixKeys(key_table, s, n - 1)
         \o (IF InRange(key_table, s[n]) /\ At(key_table, s[n]) # <<>>
             THEN <<At(key_table, s[n])>> ELSE <<>>)

\* C16: each analysis noteAnalysis records is the translation of the output
\* buffer's prefix output[0..pos) at that moment, empty keys dropped: it holds
\* no symbol that an epsilon or flag branch explored earlier left at position
\* pos or later.
AnalysisTranslatesOutputPrefix ==
    \A k \in DOMAIN NotedByCall :
        NotedByCall[k].symbol_list
            = PrefixKeys(tables.key_table, NotedByCall[k].outputString.s,
                         NotedByCall[k].outputString.pos)

\* whether the record at table position index is final, in the words of the
\* format: an index record with input NO_SYMBOL and a target other than
\* NO_TABLE_INDEX, a transition record with both symbols NO_SYMBOL and target 1
FinalRecordAt(tb, index) ==
    IF index.tt
    THEN /\ InRange(tb.transitions, index.off)
         /\ At(tb.transitions, index.off).inputSymbol = NO_SYMBOL_NUMBER
         /\ At(tb.transitions, index.off).outputSymbol = NO_SYMBOL_NUMBER
         /\ At(tb.transitions, index.off).target = Word(1)
    ELSE /\ InRange(tb.indices, index.off)
         /\ At(tb.indices, index.off).inputSymbol = NO_SYMBOL_NUMBER
         /\ At(tb.indices, index.off).target # NO_TABLE_INDEX

\* whether the input cursor stands on the NO_SYMBOL that ends the tokenized
\* input, the last element of the list
OnTerminatingNoSymbol(inputString) ==
    /\ inputString.s # <<>>
    /\ inputString.pos = Len(inputString.s) - 1
    /\ At(inputString.s, inputString.pos) = NO_SYMBOL_NUMBER

\* C17: an analysis is emitted only where the input cursor stands on the
\* terminating NO_SYMBOL and the record at the current table position is
\* final; a sentinel that is not final, and a final record reached before the
\* input is exhausted, produce no analysis.
AnalysisOnlyAtEndOfInputOnFinalRecord ==
    \A k \in DOMAIN NotedByCall :
        /\ OnTerminatingNoSymbol(NotedByCall[k].inputString)
        /\ FinalRecordAt(tables, NotedByCall[k].index)

\* the same for the calls on an instance whose input buffer is empty at the call
AnalysisOnlyAtEndOnCleanInstance ==
    call.before.inputString.s = <<>> => AnalysisOnlyAtEndOfInputOnFinalRecord

\* what analyze did in the last feed call
AnalyzeOfCall == analyze(call.before, tables, call.arg)

\* C18: the tokenization loop of analyze terminates for every input string: it
\* stops when the cursor is exhausted or as soon as the letter trie has
\* returned NO_SYMBOL, and then analyze returns False with an empty analyses
\* list and the search is not started.
TokenizationLoopTerminates ==
    (call.op = "feed" /\ call.arg # <<>>)
    => /\ AnalyzeOfCall.ret # "hang"
       /\ ~TokenizesCompletely(tables, call.arg)
          => /\ AnalyzeOfCall.ret = "False"
             /\ AnalyzeOfCall.e.output_list = <<>>
             /\ AnalyzeOfCall.e.outputString = Indexlist(<<NO_SYMBOL_NUMBER>>)

\* the str the characters of a line make from place pos on
LineFrom(indexstring) ==
    [k \in 1..(Len(indexstring.s) - indexstring.pos) |->
        indexstring.s[indexstring.pos + k][1]]

\* the numbers of the symbols of key_table, the empty ones apart, that are a
\* prefix of str
PrefixSymbols(key_table, str) ==
    { x \in 0..(Len(key_table) - 1) :
        /\ At(key_table, x) # <<>>
        /\ Len(At(key_table, x)) <= Len(str)
        /\ SubSeq(str, 1, Len(At(key_table, x))) = At(key_table, x) }

\* whether some symbol of key_table starts like str for two characters or more
\* and yet is no prefix of it
LongerSymbolFails(key_table, str) ==
    \E x \in 0..(Len(key_table) - 1) :
        /\ x \notin PrefixSymbols(key_table, str)
        /\ Len(At(key_table, x)) > 2
        /\ Len(str) >= 2
        /\ SubSeq(At(key_table, x), 1, 2) = SubSeq(str, 1, 2)

\* C19: findKey on a cursor (s, p) with p < len(s) returns the number of the
\* longest alphabet symbol that is a prefix of s[p:] and advances p by the
\* length of that symbol, also when a longer symbol shares a prefix with the
\* input without matching completely.  (Symbols are the non-empty keys.)
FindKeyReturnsLongestMatch ==
    (/\ call.op = "findKey"
     /\ call.arg.pos < Len(call.arg.s)
     /\ PrefixSymbols(tables.key_table, LineFrom(call.arg)) # {})
    => /\ call.value.sym \in PrefixSymbols(tables.key_table, LineFrom(call.arg))
       /\ \A x \in PrefixSymbols(tables.key_table, LineFrom(call.arg)) :
              Len(At(tables.key_table, x)) <= Len(At(tables.key_table, call.value.sym))
       /\ call.value.pos = call.arg.pos + Len(At(tables.key_table, call.value.sym))

\* C19, its case: the trie went down a longer symbol, which failed, and fell
\* back to a shorter one, from a cursor that is not at the start of the line
FindKeyFellBack ==
    /\ call.op = "findKey"
    /\ call.arg.pos > 0
    /\ call.arg.pos < Len(call.arg.s)
    /\ LongerSymbolFails(tables.key_table, LineFrom(call.arg))
    /\ call.value.sym # NO_SYMBOL_NUMBER
    /\ call.value.pos = call.arg.pos + 1

RECURSIVE Nodes(_)
\* the nodes of a trie: the node and the nodes under its children
Nodes(node) ==
    {node} \cup UNION { Nodes(node.children[c]) : c \in DOMAIN node.children }

\* C20: when findKey returns NO_SYMBOL the cursor is where it was at entry, and
\* so for the find of every node of the trie (every recursion depth); a call
\* with p >= len(s) returns NO_SYMBOL at once.
NoSymbolLeavesCursorUnchanged ==
    call.op = "findKey"
    => /\ \A node \in Nodes(tables.letterTrie) :
              /\ find(node, call.arg).sym = NO_SYMBOL_NUMBER
                 => find(node, call.arg).pos = call.arg.pos
              /\ call.arg.pos >= Len(call.arg.s)
                 => find(node, call.arg) = Found(NO_SYMBOL_NUMBER, call.arg.pos)
       /\ call.value.sym = NO_SYMBOL_NUMBER => call.value.pos = call.arg.pos

\* C20, its case: NO_SYMBOL came back after the trie had gone down three
\* characters of a symbol that the line does not continue
NoSymbolAfterGoingDown ==
    /\ call.op = "findKey"
    /\ tables.key_table = << <<>>, <<97, 98, 99, 97>> >>
    /\ LineFrom(call.arg) = <<97, 98, 99, 98>>
    /\ call.arg.pos = 0
    /\ call.value = Found(NO_SYMBOL_NUMBER, 0)

\* the list the tokenization loop of the last feed call builds from an empty
\* inputString
TokenizedByCall ==
    TokenizeLoop(<<>>, tables.letterTrie, Indexlist(Chars(call.arg))).s

\* C21: the tokenizer never yields symbol number 0 nor the number of a flag
\* diacritic: a symbol whose key is the empty string is matched by no input
\* text, although the constructor passes every symbol number to the trie.
TokenizerYieldsNoEmptyKeySymbol ==
    (call.op = "feed" /\ call.arg # <<>>)
    => \A k \in DOMAIN TokenizedByCall :
           \/ TokenizedByCall[k] = NO_SYMBOL_NUMBER
           \/ /\ TokenizedByCall[k] # 0
              /\ TokenizedByCall[k] \notin DOMAIN tables.flagDiacriticOperations
              /\ At(tables.key_table, TokenizedByCall[k]) # <<>>

\* C21, its case: the text of a flag diacritic of the alphabet was fed to an
\* instance whose trie holds the empty key
FlagDiacriticTextFed ==
    /\ call.op = "feed"
    /\ call.arg = <<64, 80, 46, 70, 46, 86, 64>>
    /\ 4 \in DOMAIN tables.flagDiacriticOperations
    /\ <<>> \in DOMAIN tables.letterTrie.symbols
    /\ TokenizedByCall[1] = NO_SYMBOL_NUMBER

\* the top frame of the stack before and after the last push
TopBefore == call.before.stateStack[Len(call.before.stateStack)]

TopAfter == engine.stateStack[Len(engine.stateStack)]

\* whether frame holds feat with the entry (val, sign)
Holds(frame, feat, val, sign) == feat \in DOMAIN frame /\ frame[feat] = <<val, sign>>

\* whether two frames agree on every feature other than feat
SameButAt(frame, other, feat) ==
    /\ DOMAIN frame \ {feat} = DOMAIN other \ {feat}
    /\ \A f \in DOMAIN frame \ {feat} : frame[f] = other[f]

\* C22: a push that succeeds pushes exactly one frame, a copy of the previous
\* top changed at most at the operation's feature, and leaves the older frames
\* as they were; a push that fails leaves the whole stack unchanged; P, N and C
\* always succeed and set feat to (val, true), to (val, false), or remove it.
PushAddsOneFrameOrNothing ==
    call.op = "push"
    => /\ IF call.value
          THEN /\ Len(engine.stateStack) = Len(call.before.stateStack) + 1
               /\ SubSeq(engine.stateStack, 1, Len(call.before.stateStack))
                      = call.before.stateStack
               /\ SameButAt(TopAfter, TopBefore, call.arg.feature)
          ELSE engine.stateStack = call.before.stateStack
       /\ call.arg.operation = <<80>>
          => call.value /\ Holds(TopAfter, call.arg.feature, call.arg.value, TRUE)
       /\ call.arg.operation = <<78>>
          => call.value /\ Holds(TopAfter, call.arg.feature, call.arg.value, FALSE)
       /\ call.arg.operation = <<67>>
          => call.value /\ call.arg.feature \notin DOMAIN TopAfter

\* C22, its case: a push succeeded on a stack of two frames whose top holds
\* the other feature
PushedOverOtherFeature ==
    /\ call.op = "push"
    /\ call.value
    /\ Len(call.before.stateStack) = 2
    /\ call.arg.operation = <<78>>
    /\ DOMAIN TopBefore = StackFeatures \ {call.arg.feature}

\* C23: R with a value succeeds iff the top frame has feat = (val, true), R
\* without a value iff feat is present; D with a value fails iff the top frame
\* has feat = (val, true), D without a value succeeds iff feat is absent.
RequireAndDisallowFollowTable ==
    /\ (call.op = "push" /\ call.arg.operation = <<82>>)
       => call.value = IF call.arg.value = <<>>
                       THEN call.arg.feature \in DOMAIN TopBefore
                       ELSE Holds(TopBefore, call.arg.feature, call.arg.value, TRUE)
    /\ (call.op = "push" /\ call.arg.operation = <<68>>)
       => call.value = IF call.arg.value = <<>>
                       THEN call.arg.feature \notin DOMAIN TopBefore
                       ELSE ~Holds(TopBefore, call.arg.feature, call.arg.value, TRUE)

\* C23, its case: a require with a value was refused on a top frame that
\* holds the feature with another value, above a frame that does not hold it
RequireRefusedOnOtherValue ==
    /\ call.op = "push"
    /\ call.arg.operation = <<82>>
    /\ call.arg.value = <<86>>
    /\ Holds(TopBefore, call.arg.feature, <<87>>, TRUE)
    /\ call.before.stateStack[1] = EmptyDict
    /\ ~call.value

\* C24: U succeeds iff feat is absent from the top frame, or positively set to
\* val, or negatively set to a value other than val, and then the new top has
\* feat = (val, true); it fails when feat is positively set to another value
\* or negatively set to val.
UnifyFollowsTable ==
    (call.op = "push" /\ call.arg.operation = <<85>>)
    => /\ call.value
          = \/ call.arg.feature \notin DOMAIN TopBefore
            \/ Holds(TopBefore, call.arg.feature, call.arg.value, TRUE)
            \/ \E v \in StackValues \ {call.arg.value} :
                   Holds(TopBefore, call.arg.feature, v, FALSE)
       /\ call.value => Holds(TopAfter, call.arg.feature, call.arg.value, TRUE)
       /\ (\/ \E v \in StackValues \ {call.arg.value} :
                  Holds(TopBefore, call.arg.feature, v, TRUE)
           \/ Holds(TopBefore, call.arg.feature, call.arg.value, FALSE))
          => ~call.value

\* C24, its case: a unification succeeded on a feature negatively set to
\* another value
UnifiedOverNegativeOtherValue ==
    /\ call.op = "push"
    /\ call.arg.operation = <<85>>
    /\ call.arg.value = <<86>>
    /\ Holds(TopBefore, call.arg.feature, <<87>>, FALSE)
    /\ call.value

\* the calls that returned during the search of the last feed call
ReturnsByCall ==
    IF call.op = "feed"
    THEN ReturnsBy(AnalyzeTokenize(AnalyzeReset(call.before), tables, call.arg), tables)
    ELSE <<>>

\* C25: every call of getAnalyses, tryEpsilonTransitions, findIndex and
\* findTransitions returns with the input cursor, the output position and the
\* depth of the flag stack it was entered with; the flag stack holds at least
\* one frame all through a search, and exactly one empty frame when analyze
\* returned True.
BacktrackingIsBalanced ==
    /\ \A k \in DOMAIN ReturnsByCall :
           /\ ReturnsByCall[k].fn # "pop"
              => ReturnsByCall[k].exit = ReturnsByCall[k].entry
           /\ ReturnsByCall[k].entry.depth >= 1
           /\ ReturnsByCall[k].exit.depth >= 1
    /\ (call.op = "feed" /\ AnalyzeOfCall.ret = "True")
       => engine.stateStack = <<EmptyDict>>

\* C25, its case: analyze returned True after a search in which findTransitions
\* returned under a flag diacritic that was pushed, with the input cursor and
\* the output position moved on
ReturnedUnderPushedFlag ==
    /\ call.op = "feed"
    /\ AnalyzeOfCall.ret = "True"
    /\ \E k \in DOMAIN ReturnsByCall :
           /\ ReturnsByCall[k].fn = "findTransitions"
           /\ ReturnsByCall[k].entry.depth >= 2
           /\ ReturnsByCall[k].entry.input >= 1
           /\ ReturnsByCall[k].entry.output >= 1
    /\ \E k \in DOMAIN ReturnsByCall : ReturnsByCall[k].fn = "findIndex"

\* the places of the dots in the names of a symbol string, the names being
\* what stands between its first three characters and its last
NameDots(symbol_str) == { i \in 4..(Len(symbol_str) - 1) : symbol_str[i] = 46 }

\* whether symbol_str is "@", one of P N R D C U, ".", a feature, "." and a
\* value if any, "@"; feature and value hold no dot, and are not empty unless
\* empty says so
MatchesFlagPattern(symbol_str, empty) ==
    /\ Len(symbol_str) >= 4
    /\ symbol_str[1] = 64
    /\ symbol_str[2] \in {80, 78, 82, 68, 67, 85}
    /\ symbol_str[3] = 46
    /\ symbol_str[Len(symbol_str)] = 64
    /\ Cardinality(NameDots(symbol_str)) <= 1
    /\ ~empty => /\ Len(symbol_str) >= 5
                 /\ 4 \notin NameDots(symbol_str)
                 /\ (Len(symbol_str) - 1) \notin NameDots(symbol_str)

\* the (operation, feature, value) a string that matches the pattern stands for
PatternOperation(symbol_str) ==
    IF NameDots(symbol_str) = {}
    THEN [operation |-> <<symbol_str[2]>>,
          feature |-> SubSeq(symbol_str, 4, Len(symbol_str) - 1),
          value |-> <<>>]
    ELSE [operation |-> <<symbol_str[2]>>,
          feature |-> SubSeq(symbol_str, 4, (CHOOSE i \in NameDots(symbol_str) : TRUE) - 1),
          value |-> SubSeq(symbol_str, (CHOOSE i \in NameDots(symbol_str) : TRUE) + 1,
                           Len(symbol_str) - 1)]

\* whether the tables loaded from the alphabet symbols follow the pattern
AlphabetFollows(symbols, empty) ==
    /\ At(tables.key_table, 0) = <<>>
    /\ \A n \in 0..(Len(symbols) - 1) :
           IF MatchesFlagPattern(symbols[n + 1], empty)
           THEN /\ n \in DOMAIN tables.flagDiacriticOperations
                /\ tables.flagDiacriticOperations[n] = PatternOperation(symbols[n + 1])
                /\ At(tables.key_table, n) = <<>>
           ELSE /\ n # 0 => At(tables.key_table, n) = symbols[n + 1]
                /\ n \notin DOMAIN tables.flagDiacriticOperations

\* C26: after a successful load key_table[0] is the empty string; a symbol
\* string that matches the flag-diacritic pattern is in the flag-operation map
\* with its (operation, feature, value) and has the empty string as key; every
\* other symbol, slot 0 apart, has its decoded string as key and is not in the
\* map.  The pattern is read both ways, with and without empty names.
AlphabetFollowsFlagPattern ==
    (call.op = "from_file" /\ call.arg # <<>> /\ status = "ready")
    => AlphabetFollows(call.arg, TRUE) \/ AlphabetFollows(call.arg, FALSE)

\* whether data starts with the 5 bytes "HFST\0"
StartsWithMagic(data) == Len(data) >= 5 /\ SubSeq(data, 1, 5) = HFST3_MAGIC

\* the little-endian number in the two bytes that follow the magic
PreambleLength(data) == data[6] + 256 * data[7]

\* whether the header read from data is the fixed header that starts at the
\* byte offset FromMagic when data starts with the magic, and at 0 otherwise
HeaderStartsAt(data, FromMagic) ==
    Header(data).exc = ""
    => /\ Header(data).start = IF StartsWithMagic(data) THEN FromMagic ELSE 0
       /\ Header(data).h = HeaderFields(SubSeq(data, Header(data).start + 1,
                                               Header(data).start + 56))
       /\ Header(data).h
              = HeaderFields(SubSeq(data, (IF StartsWithMagic(data) THEN FromMagic ELSE 0) + 1,
                                    (IF StartsWithMagic(data) THEN FromMagic ELSE 0) + 56))

SentinelsQueued ==
    Cardinality({k \in DOMAIN fast.message_queue : fast.message_queue[k] = None})

\* the workers of the call that have put their sentinel
WorkersEnded == {i \in DOMAIN fast.workers : fast.workers[i].pc = "done"}

\* the sentinels of a call: one for each worker that has ended, each either in
\* the queue or counted by the main loop; a worker that has ended has written
\* every word, read a complete answer for each, and left nothing in the pipes
\* of its process, so that its lines went into the queue before its sentinel
OneSentinelPerWorker ==
    (call.op = "feed_in_bulk_fast" /\ call.outcome \in {"running", "return"})
    => /\ fast.ended_count + SentinelsQueued = Cardinality(WorkersEnded)
       /\ fast.ended_count <= fast.multi_process
       /\ \A i \in WorkersEnded :
              /\ fast.workers[i].written = Len(fast.workers[i].words)
              /\ fast.workers[i].received_count = Len(fast.workers[i].words)
       /\ \A i \in WorkersEnded :
              fast.spawned[fast.workers[i].proc].running
              => /\ fast.spawned[fast.workers[i].proc].stdin = <<>>
                 /\ fast.spawned[fast.workers[i].proc].stdout = <<>>
       /\ call.outcome = "return"
          => /\ fast.ended_count = fast.multi_process
             /\ WorkersEnded = 1..fast.multi_process
             /\ fast.message_queue = <<>>

\* a step in which a worker that was given no word reads a line, or a worker
\* that has ended puts something more into the queue
WorkerOversteps ==
    \/ \E i \in DOMAIN fast.workers :
           /\ fast.pc = "collect"
           /\ fast'.calls = fast.calls
           /\ fast.workers[i].words = <<>>
           /\ Len(fast'.spawned[fast.workers[i].proc].stdout)
                  < Len(fast.spawned[fast.workers[i].proc].stdout)
    \/ /\ fast.pc = "collect"
       /\ fast'.pc = "collect"
       /\ WorkersEnded = DOMAIN fast.workers
       /\ Len(fast'.message_queue) > Len(fast.message_queue)

\* C28: under fair scheduling, with lookup processes that answer every line by
\* one or more non-empty lines and an empty line, feed_in_bulk_fast returns;
\* each worker puts exactly one None on the queue, after all of its result
\* lines; the main loop stops after it has taken exactly multi_process of
\* them; a worker with no word puts its None without reading anything.
FastCallReturnsAfterAllSentinels ==
    /\ []OneSentinelPerWorker
    /\ [][~WorkerOversteps]_vars
    /\ ((fast.pc = "collect" /\ call.outcome = "running")
            ~> (fast.pc = "idle" /\ call.outcome = "return"
                    /\ fast.ended_count = fast.multi_process))

\* C28, its case: a call on two processes with one word has returned: one
\* worker had the word, the other none
ReturnedWithIdleWorker ==
    /\ call.op = "feed_in_bulk_fast"
    /\ call.outcome = "return"
    /\ fast.multi_process = 2
    /\ Len(fast.inputs) = 1
    /\ fast.workers[1].words = <<>>
    /\ fast.workers[2].received_count = 1
    /\ fast.ended_count = 2

\* the slices of the call in progress, one after the other
SlicesInOrder == Flatten([i \in DOMAIN fast.workers |-> fast.workers[i].words])

\* the first word of slice i in the input list, counted from 0
SliceStart(i) == Len(Flatten([j \in 1..(i - 1) |-> fast.workers[j].words]))

\* C29: _call_hfstol splits the input list into exactly multi_process
\* contiguous slices inputs[len*i//m : len*(i+1)//m]; one after the other they
\* are the input list, so each input occurrence is written to exactly one
\* process, once; the sizes of two slices differ by at most one.
SlicesPartitionInputs ==
    call.op = "feed_in_bulk_fast"
    => /\ Len(fast.workers) = fast.multi_process
       /\ SlicesInOrder = fast.inputs
       /\ \A i \in DOMAIN fast.workers :
              /\ SliceStart(i) = (Len(fast.inputs) * (i - 1)) \div fast.multi_process
              /\ SliceStart(i) + Len(fast.workers[i].words)
                     = (Len(fast.inputs) * i) \div fast.multi_process
              /\ fast.spawned[fast.workers[i].proc].stdin
                     = SubSeq(fast.workers[i].words, 1, fast.workers[i].written)
       /\ \A i, j \in DOMAIN fast.workers :
              /\ Len(fast.workers[i].words) - Len(fast.workers[j].words) <= 1
              /\ i # j => fast.workers[i].proc # fast.workers[j].proc

\* C29, its case: four words for three processes, all written: one word each
\* for the first two, two for the third
FourWordsWrittenToThree ==
    /\ call.op = "feed_in_bulk_fast"
    /\ fast.inputs = << <<97>>, <<98>>, <<120>>, <<97>> >>
    /\ fast.multi_process = 3
    /\ fast.spawned[1].stdin = << <<97>> >>
    /\ fast.spawned[2].stdin = << <<98>> >>
    /\ fast.spawned[3].stdin = << <<120>>, <<97>> >>

\* the pool holds as many processes as the largest multi_process of the calls
\* that went on since the pool was last emptied (fast.requested), and the
\* workers of a call in progress are on the first multi_process of them
PoolIsLargestRequest ==
    /\ Len(fast.hfstol_processes) = fast.requested
    /\ fast.pc = "collect"
       => /\ Len(fast.workers) = fast.multi_process
          /\ fast.multi_process <= Len(fast.hfstol_processes)
          /\ \A i \in DOMAIN fast.workers :
                 fast.workers[i].proc = fast.hfstol_processes[i]
    /\ ~fast.hfstol_exe_path => fast.spawned = <<>> /\ fast.workers = <<>>

\* a step of feed_in_bulk_fast that starts a process with the pool already as
\* large as asked for, or more processes than the pool is short of, or that
\* starts anything on an instance without the executable; and a step of
\* anything else that starts a process
SpawnsMoreThanNeeded ==
    IF fast'.calls # fast.calls
    THEN \/ /\ call'.exc # "ImportError"
            /\ Len(fast'.spawned) - Len(fast.spawned)
                   # (IF fast'.multi_process > Len(fast.hfstol_processes)
                      THEN fast'.multi_process - Len(fast.hfstol_processes) ELSE 0)
         \/ /\ call'.exc # "ImportError"
            /\ SubSeq(fast'.hfstol_processes, 1, Len(fast.hfstol_processes))
                   # fast.hfstol_processes
         \/ /\ ~fast.hfstol_exe_path
            /\ ~(/\ call'.outcome = "raise"
                 /\ call'.exc = "ImportError"
                 /\ fast'.pc = "idle"
                 /\ fast'.spawned = fast.spawned
                 /\ fast'.hfstol_processes = fast.hfstol_processes
                 /\ fast'.workers = fast.workers)
    ELSE Len(fast'.spawned) # Len(fast.spawned)

\* C30: over any sequence of feed_in_bulk_fast calls on one instance, processes
\* are spawned only while the pool is smaller than multi_process: after each
\* call the pool is as large as the largest multi_process asked for since the
\* pool was last terminated, and a call uses the first multi_process processes
\* of the pool; without the executable the call raises ImportError before it
\* spawns any process or thread.
PoolGrowsOnlyToRequest ==
    /\ []PoolIsLargestRequest
    /\ [][~SpawnsMoreThanNeeded]_vars

\* C30, its case: a call for one process is in progress on a pool that was
\* terminated after a call for two: the third process spawned is the pool
PoolSpawnedAgainAfterTermination ==
    /\ fast.calls = 2
    /\ fast.pc = "collect"
    /\ fast.multi_process = 1
    /\ Len(fast.spawned) = 3
    /\ fast.hfstol_processes = <<3>>
    /\ fast.requested = 1

===========================================================================
